---- MODULE Spec2Model ----
(***************************************************************************)
(* A state-machine model of the declaration visitor of vast                *)
(* (include/vast/CodeGen/CodeGenDeclVisitor.hpp).                           *)
(*                                                                         *)
(* The IR module is an arena `mod` of operations; an IR entity is its      *)
(* index in the arena (operations are never erased, so an index is the     *)
(* pointer identity of the operation).  Every handler of the visitor is an *)
(* operator from a session state (a record of all the variables) to the    *)
(* session state after the handler returned; an action commits that state. *)
(* A fatal abort (VAST_UNIMPLEMENTED, VAST_UNREACHABLE, a failed            *)
(* VAST_CHECK) sets `fatal` and leaves the state as it was at the abort.    *)
(***************************************************************************)
EXTENDS Integers, Sequences, FiniteSets, TLC

VARIABLES
    mod,            \* the IR module: Seq of operations (the arena)
    funcdecls,      \* context().funcdecls: mangled name -> function entity
    symtab,         \* context().vars / labels / typedecls / ...: scope stacks
    pending,        \* context().deferred_decls: mangled name -> declaration
    toEmit,         \* context().deferred_decls_to_emit
    defaultMethods, \* context().default_methods_to_emit
    diagnosed,      \* context().diagnosed_conflicting_definitions
    diags,          \* diagnostics reported through the diagnostics engine
    repr,           \* the mangler's representative declaration of a name
    errors,         \* context().error(...) reports (local, recoverable)
    tagNames,       \* context().tag_names: the tags the context has named
    fatal,          \* the process aborted
    ret,            \* the result of the last handler (0: null)
    last,           \* the last handler called, and what it was called with
    seen,           \* declaration key -> result of its first visit
    tu,             \* the translation unit the driver walks (function decls)
    pos,            \* the driver's position in tu
    phase,          \* "open" | "top" | "drain" | "done"
    lowerLog,       \* declarations lowered by the driver, in order
    appendLog,      \* declarations appended to toEmit, in order
    ppl             \* the pipeline_t: its seen set and the passes handed to
                    \* the pass manager under it, in order

vars == << mod, funcdecls, symtab, pending, toEmit, defaultMethods, diagnosed,
           diags, repr, errors, tagNames, fatal, ret, last, seen, tu, pos, phase,
           lowerLog, appendLog, ppl >>

----------------------------------------------------------------------------
(* Bounds of the model *)

\* the longest translation unit the driver is given
MaxTU == 4
\* how many times an initializer is lowered into one initializer region
MaxInit == 2
\* how many function entities the body-lowering runs put in one module
MaxFuncs == 2
\* the entities a module of declarations may grow to
MaxOps == 8
\* the diagnostics a session of resolver calls may report
MaxDiags == 2
\* the distinct declarations a session of declaration visits may touch
MaxDecls == 3
\* the errors reported before visits of unbound parameters stop
MaxErrors == 3

----------------------------------------------------------------------------
(* The AST: immutable inputs *)

NoEnt == 0
NoDecl == 0

\* a type that is not a core::FunctionType (an unresolved function type)
NotFnType == -1

FnNames == {"f", "g", "h", "k", "v", "main", "d", "m", "c", "dS", "im", "om", "as", "e"}

RetVoid(n) == n \in {"v", "d"}
IsMain(n) == n = "main"

FD(name, chain, isDef, ownBody, proto, np, static, calls, prefs, locals, nlabels, shapes, attrs) ==
    [name |-> name, chain |-> chain, isDef |-> isDef, ownBody |-> ownBody,
     proto |-> proto, np |-> np, static |-> static, calls |-> calls,
     prefs |-> prefs, locals |-> locals, nlabels |-> nlabels, shapes |-> shapes,
     attrs |-> attrs]

(* The function declarations of the model.  name: the mangled name; chain:  *)
(* the redeclaration chain (the logical entity); isDef:                     *)
(* isThisDeclarationADefinition(); ownBody: doesThisDeclarationHaveABody(); *)
(* proto: declared with a prototype; np: parameters().size(); calls: the    *)
(* declarations the body's call expressions refer to; prefs: the parameters *)
(* the body refers to; locals: the variables the body declares; nlabels:    *)
(* the labels of the body; shapes: the block structures statement lowering  *)
(* may leave behind for the body; attrs: "multiversion", "consteval",      *)
(* "dtor", "in_record" (lexically inside a record), "defaulted_assign" (a  *)
(* defaulted copy- or move-assignment operator), "forces_extern".           *)
FunctionDecls == <<
    \*  1: int g(void);
    FD("g", 1, FALSE, FALSE, TRUE, 0, FALSE, <<>>, <<>>, <<>>, 0, {1}, {}),
    \*  2: int g(void) { return 1; }
    FD("g", 1, TRUE, TRUE, TRUE, 0, FALSE, <<>>, <<>>, <<>>, 0, {3}, {}),
    \*  3: another entity whose definition is mangled to g as well
    FD("g", 2, TRUE, TRUE, TRUE, 0, FALSE, <<>>, <<>>, <<>>, 0, {2}, {}),
    \*  4: int f(void) { return g(); }
    FD("f", 3, TRUE, TRUE, TRUE, 0, FALSE, <<1>>, <<>>, <<>>, 0, {3}, {}),
    \*  5: static int h(void) { v(0); return f(); }
    FD("h", 4, TRUE, TRUE, TRUE, 0, TRUE, <<8, 4>>, <<>>, <<>>, 0, {3}, {}),
    \*  6: int k();
    FD("k", 5, FALSE, FALSE, FALSE, 0, FALSE, <<>>, <<>>, <<>>, 0, {1}, {}),
    \*  7: int k(int x, int y) { L: int t; ... x ... y ... }
    FD("k", 5, TRUE, TRUE, TRUE, 2, FALSE, <<>>, <<1, 2>>, <<3>>, 1,
       {1, 2, 3, 4, 5, 6, 7, 8, 9, 10, 11, 12, 13}, {}),
    \*  8: static void v(int a) { ... a ... }
    FD("v", 6, TRUE, TRUE, TRUE, 1, TRUE, <<>>, <<1>>, <<>>, 0, {2, 3, 4}, {}),
    \*  9: int main(void) { ... }
    FD("main", 7, TRUE, TRUE, TRUE, 0, FALSE, <<>>, <<>>, <<>>, 0, {1, 3, 5}, {}),
    \* 10: void d(int a) = delete;  a definition for which hasBody() is false
    FD("d", 8, TRUE, FALSE, TRUE, 1, FALSE, <<>>, <<>>, <<>>, 0, {1}, {}),
    \* 11: a multi-version function (target attribute)
    FD("m", 9, TRUE, TRUE, TRUE, 0, FALSE, <<>>, <<>>, <<>>, 0, {3}, {"multiversion"}),
    \* 12: consteval int c(void) { return 1; }
    FD("c", 10, TRUE, TRUE, TRUE, 0, FALSE, <<>>, <<>>, <<>>, 0, {3}, {"consteval"}),
    \* 13: S::~S() { }
    FD("dS", 11, TRUE, TRUE, TRUE, 0, FALSE, <<>>, <<>>, <<>>, 0, {2}, {"dtor"}),
    \* 14: struct S { int im() { return 1; } };  defined in the record
    FD("im", 12, TRUE, TRUE, TRUE, 0, FALSE, <<>>, <<>>, <<>>, 0, {3}, {"in_record"}),
    \* 15: struct S { int om(); };  declared in the record
    FD("om", 13, FALSE, FALSE, TRUE, 0, FALSE, <<>>, <<>>, <<>>, 0, {1}, {"in_record"}),
    \* 16: int S::om() { return 1; }  defined outside of the record
    FD("om", 13, TRUE, TRUE, TRUE, 0, FALSE, <<>>, <<>>, <<>>, 0, {3}, {}),
    \* 17: struct S { S &operator=(const S &) = default; };  with its body
    FD("as", 14, TRUE, TRUE, TRUE, 1, FALSE, <<>>, <<>>, <<>>, 0, {3},
       {"in_record", "defaulted_assign"}),
    \* 18: extern inline int e(void);  after an inline definition: not a
    \*     definition, forces an externally visible one
    FD("e", 15, FALSE, FALSE, TRUE, 0, FALSE, <<>>, <<>>, <<>>, 0, {1}, {"forces_extern"}),
    \* 19: the member function of 14 once more, with its body: the record's
    \*     definition merged from a second module
    FD("im", 12, TRUE, TRUE, TRUE, 0, FALSE, <<>>, <<>>, <<>>, 0, {3}, {"in_record"})
>>

FnDeclIds == 1..Len(FunctionDecls)

VD(name, fn, hasInit, irefs) ==
    [name |-> name, fn |-> fn, hasInit |-> hasInit, irefs |-> irefs]

(* The variable declarations.  fn: the function declaration whose body      *)
(* declares it (0: a global); hasInit: getInit() is set; irefs: the         *)
(* variables the initializer refers to.                                     *)
VarDecls == <<
    \* 1: int gx = 0;
    VD("gx", 0, TRUE, <<>>),
    \* 2: int *gp = malloc(sizeof(*gp));
    VD("gp", 0, TRUE, <<2>>),
    \* 3: int t;  (a local of k)
    VD("t", 7, FALSE, <<>>),
    \* 4: a global variable whose name is the mangled name of the function h
    VD("h", 0, FALSE, <<>>),
    \* 5: short gs = (short)gx;
    VD("gs", 0, TRUE, <<1>>)
>>

VarDeclIds == 1..Len(VarDecls)

Op(k) == [k |-> k, body |-> <<>>]
Scope(region) == [k |-> "scope", body |-> region]

(* What statement lowering leaves in the function's region: a sequence of   *)
(* blocks, each a sequence of operations; a core.scope holds a region.      *)
BodyShapes == <<
    \*  1: {}
    << <<>> >>,
    \*  2: falls through
    << <<Op("op")>> >>,
    \*  3: ends in a return
    << <<Op("op"), Op("ret")>> >>,
    \*  4: a trailing scope that falls through
    << <<Scope(<< <<Op("op")>> >>)>> >>,
    \*  5: a trailing scope that ends in a return
    << <<Scope(<< <<Op("op"), Op("ret")>> >>)>> >>,
    \*  6: a scope that is not alone in its block
    << <<Op("op"), Scope(<< <<Op("ret")>> >>)>> >>,
    \*  7: two nested trailing scopes
    << <<Scope(<< <<Scope(<< <<Op("op")>> >>)>> >>)>> >>,
    \*  8: a trailing scope whose last operation is a scope that is not alone
    << <<Scope(<< <<Op("op"), Scope(<< <<Op("op")>> >>)>> >>)>> >>,
    \*  9: an empty trailing scope
    << <<Scope(<< <<>> >>)>> >>,
    \* 10: two blocks
    << <<Op("op"), Op("br")>>, <<Op("op")>> >>,
    \* 11: two blocks, the last one a single scope
    << <<Op("br")>>, <<Scope(<< <<Op("op")>> >>)>> >>,
    \* 12: a trailing scope of two blocks
    << <<Scope(<< <<Op("br")>>, <<Op("op")>> >>)>> >>,
    \* 13: a return followed by dead code
    << <<Op("ret"), Op("op")>> >>
>>

ShapeIds == 1..Len(BodyShapes)

----------------------------------------------------------------------------
(* clang's view of the declarations *)

Redecls(d) == {e \in FnDeclIds : FunctionDecls[e].chain = FunctionDecls[d].chain}

\* FunctionDecl::hasBody(): some redeclaration has a body
hasBody(d) == \E e \in Redecls(d) : FunctionDecls[e].ownBody

\* the redeclaration whose body getBody() returns
BodyOwner(d) == CHOOSE e \in Redecls(d) : FunctionDecls[e].ownBody

\* FunctionDecl::getDefinition()
getDefinition(d) ==
    IF \E e \in Redecls(d) : FunctionDecls[e].isDef
    THEN CHOOSE e \in Redecls(d) : FunctionDecls[e].isDef
    ELSE NoDecl

\* the lowered function type of a declaration: its number of inputs
visit_function_type(d) ==
    IF FunctionDecls[d].proto THEN FunctionDecls[d].np ELSE 0

NumInputs(type) == IF type < 0 THEN 0 ELSE type

----------------------------------------------------------------------------
(* The session state and the symbol tables *)

Key(t, d, i) == [t |-> t, d |-> d, i |-> i]
NoKey == Key("none", 0, 0)

\* an mlir value: the result of operation e (i = 0) or argument i of the
\* entry block of function e
Val(e, i) == [e |-> e, i |-> i]
NoValue == Val(NoEnt, 0)

TableNames == {"vars", "labels", "typedecls", "typedefs", "enumdecls", "enumconsts"}

Cur ==
    [mod |-> mod, funcdecls |-> funcdecls, symtab |-> symtab,
     pending |-> pending, toEmit |-> toEmit, defaultMethods |-> defaultMethods,
     diagnosed |-> diagnosed, diags |-> diags, repr |-> repr,
     errors |-> errors, tagNames |-> tagNames, fatal |-> fatal, ret |-> ret,
     appendLog |-> appendLog]

Commit(s) ==
    /\ mod' = s.mod
    /\ funcdecls' = s.funcdecls
    /\ symtab' = s.symtab
    /\ pending' = s.pending
    /\ toEmit' = s.toEmit
    /\ defaultMethods' = s.defaultMethods
    /\ diagnosed' = s.diagnosed
    /\ diags' = s.diags
    /\ repr' = s.repr
    /\ errors' = s.errors
    /\ tagNames' = s.tagNames
    /\ fatal' = s.fatal
    /\ ret' = s.ret
    /\ appendLog' = s.appendLog
    /\ ppl' = ppl

Fatal(s) == [s EXCEPT !.fatal = TRUE, !.ret = NoEnt]

\* the value of an expression, evaluated once, handed to what follows it
With(v, F(_)) == F(v)

\* what follows a call runs unless the call aborted the process
IfAlive(s, F(_)) == IF s.fatal THEN s ELSE F(s)

\* an operation of the module.  parent: the entity whose region holds it
\* (0: the module itself); blocks: its region (a function's body, a
\* variable's initializer); nargs: the arguments of its entry block;
\* callees: the function entities its calls refer to; refs: the values its
\* declaration references resolved to; parms: what the visits of parameter
\* declarations made from its body returned; members: the member entities in
\* its region, in order; by: the declaration whose visit filled the region;
\* shape: what statement lowering left in it (an index of BodyShapes)
NewOp(kind, name, key, parent, type, vis) ==
    [kind |-> kind, name |-> name, key |-> key, parent |-> parent,
     type |-> type, vis |-> vis, blocks |-> <<>>, nargs |-> 0,
     callees |-> <<>>, refs |-> <<>>, parms |-> <<>>, members |-> <<>>,
     by |-> NoDecl, shape |-> 0]

\* mlir_builder().create< op_t >(...)
make(s, op) == [s EXCEPT !.mod = Append(@, op), !.ret = Len(s.mod) + 1]

\* llvm::ScopedHashTable::lookup: the innermost binding of the key
lookup(stack, key) ==
    LET hits == {j \in 1..Len(stack) : \E b \in stack[j] : b.k = key}
    IN  IF hits = {} THEN NoValue
        ELSE LET top == CHOOSE j \in hits : \A h \in hits : h <= j
             IN  (CHOOSE b \in stack[top] : b.k = key).v

\* llvm::ScopedHashTable::insert: bind in the current (innermost) scope
insert(stack, key, val) ==
    [stack EXCEPT ![Len(stack)] = {b \in @ : b.k # key} \cup {[k |-> key, v |-> val]}]

\* a scope whose destructor leaves its bindings in place
PopScope_keep(s, tab) == s

\* llvm::ScopedHashTableScope: constructor and destructor
PushScope(s, tab) == [s EXCEPT !.symtab[tab] = Append(@, {})]
PopScope(s, tab) == [s EXCEPT !.symtab[tab] = SubSeq(@, 1, Len(@) - 1)]

\* context().declare(decl, builder): `built` is the session after builder()
\* ran in s and left its operation in ret
declare(s, tab, key, built) ==
    LET hit == lookup(s.symtab[tab], key)
    IN  IF hit # NoValue THEN [s EXCEPT !.ret = hit.e]
        ELSE [built EXCEPT !.symtab[tab] = insert(@, key, Val(built.ret, 0))]

\* context().declare(decl, value): bind a ready value
declare_value(s, tab, key, val) ==
    IF lookup(s.symtab[tab], key) # NoValue THEN s
    ELSE [s EXCEPT !.symtab[tab] = insert(@, key, val)]

\* context().declare(mangled_name, builder) on the function table
declare_function(s, name, built) ==
    IF s.funcdecls[name] # NoEnt THEN [s EXCEPT !.ret = s.funcdecls[name]]
    ELSE [built EXCEPT !.funcdecls[name] = built.ret]

\* context().lookup_function(mangled, false)
lookup_function(s, name) == s.funcdecls[name]

\* context().get_global_value(mangled_name): the module's symbol of that name
get_global_value(s, name) ==
    LET hits == {e \in 1..Len(s.mod) :
                    /\ s.mod[e].parent = NoEnt
                    /\ s.mod[e].kind \in {"func", "var"}
                    /\ s.mod[e].name = name}
    IN  IF hits = {} THEN NoEnt ELSE CHOOSE e \in hits : \A h \in hits : e <= h

\* context().get_mangled_name(decl): the mangler remembers the first
\* declaration it mangled to a name as the name's representative
get_mangled_name(s, d) ==
    LET n == FunctionDecls[d].name
    IN  IF s.repr[n] = NoDecl THEN [s EXCEPT !.repr[n] = d] ELSE s

\* name_mangler().lookup_representative_decl(mangled_name)
lookup_representative_decl(s, name) == s.repr[name]

\* context().error(...)
error(s, what) == [s EXCEPT !.errors = Append(@, what)]

\* core::get_function_linkage
get_function_linkage(d) ==
    IF FunctionDecls[d].static THEN "internal" ELSE "external"

\* core::get_visibility_from_linkage
get_visibility_from_linkage(linkage) ==
    IF linkage = "external" THEN "public" ELSE "private"

----------------------------------------------------------------------------
(* The global resolver *)

\* global_emition: what the caller wants the function for
Emition(for_vtable, thunk, defer, def) ==
    [for_vtable |-> for_vtable, thunk |-> thunk, defer |-> defer, def |-> def]

emit_definition == Emition(FALSE, FALSE, FALSE, TRUE)
emit_declaration == Emition(FALSE, FALSE, FALSE, FALSE)
deferred_emit_definition == Emition(FALSE, FALSE, TRUE, TRUE)

is_for_definition(emit) == emit.def

\* acontext().getLangOpts(); a C translation unit has no declaration that
\* is lexically inside a record, so the C++ branch finds nothing for it
LangOpts == [CPlusPlus |-> TRUE, OpenMPIsTargetDevice |-> FALSE]

is_defaulted_method(d) == "defaulted_assign" \in FunctionDecls[d].attrs

\* context().add_deferred_decl_to_emit
add_deferred_decl_to_emit(s, d) ==
    [s EXCEPT !.toEmit = Append(@, d), !.appendLog = Append(@, d)]

\* context().add_default_methods_to_emit
add_default_methods_to_emit(s, d) ==
    [s EXCEPT !.defaultMethods = Append(@, d)]

\* a creation that leaves every new function private
create_vast_function_private(s, mangled_name, fty, function_decl) ==
    declare_function(s, mangled_name,
        make(s, NewOp("func", mangled_name, NoKey, NoEnt, fty, "private")))

create_vast_function(s, mangled_name, fty, function_decl) ==
    LET D == FunctionDecls[function_decl]
        linkage == get_function_linkage(function_decl)
        visibility ==
            IF D.isDef THEN get_visibility_from_linkage(linkage)
            ELSE IF "forces_extern" \in D.attrs THEN "public"
            ELSE "private"
    IN  With(declare_function(s, mangled_name,
                 make(s, NewOp("func", mangled_name, NoKey, NoEnt, fty, "public"))),
             LAMBDA s1 :
                 IF s1.mod[s1.ret].blocks # <<>> THEN Fatal(s1)
                 ELSE [s1 EXCEPT !.mod[s1.ret].vis = visibility])

\* the set insert of record_conflicting_definition: TRUE when glob is new
record_conflicting_definition(s, glob) == glob \notin s.diagnosed

\* a walk that starts at the oldest redeclaration
LexicalRecordDecl_oldest(d) ==
    LET hits == {e \in Redecls(d) : /\ "in_record" \in FunctionDecls[e].attrs
                                    /\ FunctionDecls[e].ownBody}
    IN  IF hits = {} THEN NoDecl ELSE CHOOSE e \in hits : \A h \in hits : e <= h

\* the redeclaration the C++ branch queues: walking back from the most
\* recent one, the first that is lexically in a record and has a body
LexicalRecordDecl(d) ==
    LET hits == {e \in Redecls(d) : /\ "in_record" \in FunctionDecls[e].attrs
                                    /\ FunctionDecls[e].ownBody}
    IN  IF hits = {} THEN NoDecl ELSE CHOOSE e \in hits : \A h \in hits : h <= e

\* a promotion that leaves the pending entry where it is
promote_deferred_keep(s, mangled_name, glob) ==
    IF s.pending[mangled_name] # NoDecl
    THEN add_deferred_decl_to_emit(s, s.pending[mangled_name])
    ELSE s

\* the `if (emit.defer)` block of get_or_create_vast_function
promote_deferred(s, mangled_name, glob) ==
    IF "dtor" \in FunctionDecls[glob].attrs THEN Fatal(s)
    ELSE IF s.pending[mangled_name] # NoDecl
    THEN [add_deferred_decl_to_emit(s, s.pending[mangled_name])
             EXCEPT !.pending[mangled_name] = NoDecl]
    ELSE IF LangOpts.CPlusPlus /\ LexicalRecordDecl(glob) # NoDecl
    THEN IF is_defaulted_method(LexicalRecordDecl(glob))
         THEN add_default_methods_to_emit(s, LexicalRecordDecl(glob))
         ELSE add_deferred_decl_to_emit(s, LexicalRecordDecl(glob))
    ELSE s

\* a hit path that takes whatever entity it finds for a function
resolve_existing_any(s, entry, mangled_name, type, glob, emit) ==
    IF s.mod[entry].type = type THEN [s EXCEPT !.ret = entry] ELSE Fatal(s)

\* the `if (entry)` block: an entity of that name exists
resolve_existing(s, entry, mangled_name, type, glob, emit) ==
    IF s.mod[entry].kind # "func" THEN Fatal(s)
    ELSE LET other == lookup_representative_decl(s, mangled_name)
             report == /\ is_for_definition(emit)
                       /\ s.mod[entry].blocks # <<>>
                       /\ other # NoDecl
                       /\ record_conflicting_definition(s, glob)
             s1 == IF report
                   THEN [s EXCEPT !.diagnosed = @ \cup {glob},
                                  !.diags = Append(@, [name |-> mangled_name,
                                                      at |-> glob,
                                                      previous |-> other])]
                   ELSE s
         IN  IF s1.mod[entry].type = type THEN [s1 EXCEPT !.ret = entry]
             ELSE Fatal(s1)

\* a resolver that returns what it finds or creates without a look at
\* the type
get_or_create_vast_function_lenient(s, mangled_name, type, glob, emit) ==
    With(get_global_value(s, mangled_name), LAMBDA entry :
        IF entry # NoEnt THEN [s EXCEPT !.ret = entry]
        ELSE create_vast_function(s, mangled_name, type, glob))

\* a resolver that never looks for an existing entity
get_or_create_vast_function_fresh(s, mangled_name, type, glob, emit) ==
    make(s, NewOp("func", mangled_name, NoKey, NoEnt, type, "public"))

get_or_create_vast_function(s, mangled_name, type, glob, emit) ==
    IF emit.for_vtable \/ emit.thunk THEN Fatal(s)
    ELSE IF LangOpts.OpenMPIsTargetDevice \/ "multiversion" \in FunctionDecls[glob].attrs
    THEN Fatal(s)
    ELSE With(get_global_value(s, mangled_name), LAMBDA entry :
        IF entry # NoEnt
        THEN resolve_existing(s, entry, mangled_name, type, glob, emit)
        ELSE IF type = NotFnType THEN Fatal(s)
        ELSE IfAlive(create_vast_function(s, mangled_name, type, glob), LAMBDA s1 :
             IfAlive(IF emit.defer THEN promote_deferred(s1, mangled_name, glob) ELSE s1,
                     LAMBDA s2 :
                         IF s2.mod[s1.ret].type # type THEN Fatal(s2)
                         ELSE [s2 EXCEPT !.ret = s1.ret])))

\* the resolver that skips the checks of get_addr_of_function
get_addr_of_function_unchecked(s, decl, fty, emit) ==
    get_or_create_vast_function(get_mangled_name(s, decl),
        FunctionDecls[decl].name, fty, decl, emit)

get_addr_of_function(s, decl, fty, emit) ==
    IF emit.for_vtable THEN Fatal(s)
    ELSE IF "consteval" \in FunctionDecls[decl].attrs THEN Fatal(s)
    ELSE IF "dtor" \in FunctionDecls[decl].attrs THEN Fatal(s)
    ELSE get_or_create_vast_function(get_mangled_name(s, decl),
             FunctionDecls[decl].name, fty, decl, emit)

build_function_prototype(s, decl) ==
    get_addr_of_function(s, decl, visit_function_type(decl), deferred_emit_definition)

----------------------------------------------------------------------------
(* Declarations that function lowering visits *)

\* a label visit that builds its operation without consulting the table
VisitLabelDecl_rebuild(s, key, parent) ==
    make(s, NewOp("label", "L", key, parent, 0, "none"))

VisitLabelDecl(s, key, parent) ==
    declare(s, "labels", key, make(s, NewOp("label", "L", key, parent, 0, "none")))

\* value_builder(...) of an initializer: the references of the initializer
\* resolve through the variable table, and the lowered value is inserted
\* at the start of the initializer region
lower_initializer(s, var, decl) ==
    LET resolved == [j \in 1..Len(VarDecls[decl].irefs) |->
                        lookup(s.symtab["vars"], Key("var", VarDecls[decl].irefs[j], 0))]
    IN  [s EXCEPT !.mod[var].blocks[1] = <<Op("value")>> \o @,
                  !.mod[var].refs = @ \o resolved]

\* a variable visit in one pass: the initializer is lowered first, and the
\* entity is made and bound with the region already filled
VisitVarDecl_onepass(s, decl, parent) ==
    LET D == VarDecls[decl]
        key == Key("var", decl, 0)
        resolved == [j \in 1..Len(D.irefs) |->
                        lookup(s.symtab["vars"], Key("var", D.irefs[j], 0))]
        op == [NewOp("var", D.name, key, parent, 0, "none") EXCEPT
                  !.blocks = IF D.hasInit THEN << <<Op("value")>> >> ELSE <<>>,
                  !.refs = IF D.hasInit THEN resolved ELSE <<>>]
    IN  declare(s, "vars", key, make(s, op))

VisitVarDecl(s, decl, parent) ==
    LET D == VarDecls[decl]
        key == Key("var", decl, 0)
        op == [NewOp("var", D.name, key, parent, 0, "none") EXCEPT
                  !.blocks = IF D.hasInit THEN << <<>> >> ELSE <<>>]
    IN  With(declare(s, "vars", key, make(s, op)), LAMBDA var_decl :
            IF D.hasInit
            THEN [lower_initializer(var_decl, var_decl.ret, decl) EXCEPT !.ret = var_decl.ret]
            ELSE var_decl)

VisitParmVarDecl(s, decl, i) ==
    LET var == lookup(s.symtab["vars"], Key("parm", decl, i))
    IN  IF var # NoValue
        THEN [s EXCEPT !.ret = IF var.i = 0 THEN var.e ELSE NoEnt]
        ELSE [error(s, "missing parameter declaration") EXCEPT !.ret = NoEnt]

----------------------------------------------------------------------------
(* Function prototype and body lowering *)

is_terminator(op) ==
    \/ op.k \in {"br", "implicit_return", "unreachable"}
    \/ op.k = "ret"

\* a terminator that does not depend on the function
emit_function_terminator_plain(decl) == <<Op("unreachable")>>

\* what emit_function_terminator creates at the insertion point
emit_function_terminator(decl) ==
    IF RetVoid(FunctionDecls[decl].name) THEN <<Op("const"), Op("implicit_return")>>
    ELSE IF IsMain(FunctionDecls[decl].name) THEN <<Op("const"), Op("ret")>>
    ELSE <<Op("unreachable")>>

\* get_last_op(scope): the last operation of the scope's body, if any
get_last_op(scope) ==
    LET lb == scope.body[Len(scope.body)]
    IN  IF lb = <<>> THEN <<>> ELSE <<lb[Len(lb)]>>

\* a search that descends into every trailing scope
process_scope_always(parent) == TRUE

\* process_scope descends into a scope when the region that holds the scope
\* has one block and that block holds one operation
process_scope(parent) == Len(parent) = 1 /\ Len(parent[1]) = 1

\* a tail that emits the terminator without looking at the last operation
finish_region_append(region, term) ==
    [region EXCEPT ![Len(region)] = @ \o term]

(* The tail of emit_function_body on a region whose last block the         *)
(* insertion point was set to the end of: descend through trailing scopes, *)
(* then emit the terminator at the insertion point unless the last         *)
(* operation found is a terminator.                                        *)
RECURSIVE finish_region(_, _)
finish_region(region, term) ==
    LET n == Len(region)
        ops == region[n]
        last_op == IF ops = <<>> THEN <<>> ELSE <<ops[Len(ops)]>>
    IN  IF last_op # <<>> /\ last_op[1].k = "scope"
        THEN IF process_scope(region)
             THEN [region EXCEPT ![n][Len(ops)].body = finish_region(@, term)]
             ELSE [region EXCEPT ![n] = @ \o term]
        ELSE IF last_op = <<>> \/ ~is_terminator(last_op[1])
        THEN [region EXCEPT ![n] = @ \o term]
        ELSE region

RECURSIVE declare_function_params(_, _, _, _)
declare_function_params(s, decl, fn, i) ==
    IF i > FunctionDecls[decl].np \/ i > s.mod[fn].nargs THEN s
    ELSE declare_function_params(
             declare_value(s, "vars", Key("parm", decl, i), Val(fn, i)), decl, fn, i + 1)

RECURSIVE visit_labels(_, _, _, _)
visit_labels(s, decl, fn, j) ==
    IF j > FunctionDecls[decl].nlabels THEN s
    ELSE visit_labels(VisitLabelDecl(s, Key("label", decl, j), fn), decl, fn, j + 1)

RECURSIVE lower_locals(_, _, _, _)
lower_locals(s, locals, fn, j) ==
    IF j > Len(locals) THEN s
    ELSE lower_locals(VisitVarDecl(s, locals[j], fn), locals, fn, j + 1)

\* a call expression resolves its callee through build_function_prototype
RECURSIVE lower_calls(_, _, _, _)
lower_calls(s, calls, fn, j) ==
    IF j > Len(calls) \/ s.fatal THEN s
    ELSE IfAlive(build_function_prototype(s, calls[j]), LAMBDA s1 :
             lower_calls([s1 EXCEPT !.mod[fn].callees = Append(@, s1.ret)],
                         calls, fn, j + 1))

\* a reference to a parameter resolves through the variable table; the
\* parameter's declaration is visited where the body refers to it
RECURSIVE lower_refs(_, _, _, _, _)
lower_refs(s, owner, prefs, fn, j) ==
    IF j > Len(prefs) THEN s
    ELSE LET var == lookup(s.symtab["vars"], Key("parm", owner, prefs[j]))
         IN  With(VisitParmVarDecl(s, owner, prefs[j]), LAMBDA s1 :
                 lower_refs([s1 EXCEPT !.mod[fn].refs = Append(@, var),
                                       !.mod[fn].parms = Append(@, s1.ret)],
                            owner, prefs, fn, j + 1))

\* visit(decl->getBody()): statement lowering fills the function's region
visit_body(s, decl, fn, sh) ==
    LET B == FunctionDecls[BodyOwner(decl)]
    IN  IfAlive(lower_calls(lower_locals(s, B.locals, fn, 1), B.calls, fn, 1), LAMBDA s2 :
            [lower_refs(s2, BodyOwner(decl), B.prefs, fn, 1)
                EXCEPT !.mod[fn].blocks = BodyShapes[sh], !.mod[fn].shape = sh])

emit_function_body(s, decl, fn, sh) ==
    With([s EXCEPT !.mod[fn].blocks = << <<>> >>,
                   !.mod[fn].nargs = NumInputs(s.mod[fn].type),
                   !.mod[fn].by = decl],
         LAMBDA entry :
             IfAlive(IF ~hasBody(decl) THEN entry
                     ELSE IfAlive(visit_body(
                                      visit_labels(
                                          PushScope(declare_function_params(entry, decl, fn, 1),
                                                    "labels"),
                                          decl, fn, 1),
                                      decl, fn, sh),
                                  LAMBDA s3 : PopScope(s3, "labels")),
                     LAMBDA body :
                         [body EXCEPT !.mod[fn].blocks =
                             finish_region(@, emit_function_terminator(decl))]))

\* a visit of a definition that lowers the body whether or not the entity
\* has one
VisitFunctionLikeDecl_again(s, decl, sh) ==
    LET D == FunctionDecls[decl]
        mangled == D.name
        header == NewOp("func", mangled, NoKey, NoEnt, visit_function_type(decl), "private")
    IN  With(PushScope(get_mangled_name(s, decl), "vars"), LAMBDA scope :
        With(lookup_function(scope, mangled), LAMBDA found :
        With(IF found # NoEnt THEN [scope EXCEPT !.ret = found]
             ELSE declare_function(scope, mangled, make(scope, header)),
             LAMBDA s1 :
                 IF ~D.isDef THEN PopScope(s1, "vars")
                 ELSE IfAlive(emit_function_body(s1, decl, s1.ret, sh),
                          LAMBDA s3 : [PopScope(s3, "vars") EXCEPT !.ret = s1.ret]))))

\* a visit that fixes the visibility up before it asks whether the
\* declaration is a definition
VisitFunctionLikeDecl_eager(s, decl, sh) ==
    LET D == FunctionDecls[decl]
        mangled == D.name
        def == getDefinition(decl)
        linkage == get_function_linkage(IF def # NoDecl THEN def ELSE decl)
        header == NewOp("func", mangled, NoKey, NoEnt, visit_function_type(decl), "private")
    IN  With(PushScope(get_mangled_name(s, decl), "vars"), LAMBDA scope :
        With(lookup_function(scope, mangled), LAMBDA found :
        With(IF found # NoEnt THEN [scope EXCEPT !.ret = found]
             ELSE declare_function(scope, mangled, make(scope, header)),
             LAMBDA s1 :
                 With([s1 EXCEPT !.mod[s1.ret].vis = get_visibility_from_linkage(linkage)],
                      LAMBDA s2 :
                          IF ~D.isDef \/ s2.mod[s2.ret].blocks # <<>>
                          THEN PopScope(s2, "vars")
                          ELSE IfAlive(emit_function_body(s2, decl, s2.ret, sh),
                                   LAMBDA s3 : [PopScope(s3, "vars") EXCEPT !.ret = s1.ret])))))

VisitFunctionLikeDecl(s, decl, sh) ==
    LET D == FunctionDecls[decl]
        mangled == D.name
        def == getDefinition(decl)
        linkage == get_function_linkage(IF def # NoDecl THEN def ELSE decl)
        header == NewOp("func", mangled, NoKey, NoEnt, visit_function_type(decl), "private")
    IN  With(PushScope(get_mangled_name(s, decl), "vars"), LAMBDA scope :
        With(lookup_function(scope, mangled), LAMBDA found :
        With(IF found # NoEnt THEN [scope EXCEPT !.ret = found]
             ELSE declare_function(scope, mangled, make(scope, header)),
             LAMBDA s1 :
                 IF ~D.isDef THEN PopScope(s1, "vars")
                 ELSE IfAlive(IF s1.mod[s1.ret].blocks = <<>>
                              THEN emit_function_body(
                                       [s1 EXCEPT !.mod[s1.ret].vis =
                                           get_visibility_from_linkage(linkage)],
                                       decl, s1.ret, sh)
                              ELSE [s1 EXCEPT !.mod[s1.ret].vis =
                                       get_visibility_from_linkage(linkage)],
                              LAMBDA s3 : [PopScope(s3, "vars") EXCEPT !.ret = s1.ret]))))

----------------------------------------------------------------------------
(* Initial state and the actions *)

\* the session after construction, and a pipeline with nothing scheduled
SessionInit ==
    /\ ppl = [seen |-> {}, passes |-> <<>>]
    /\ mod = <<>>
    /\ funcdecls = [n \in FnNames |-> NoEnt]
    /\ symtab = [t \in TableNames |-> << {} >>]
    /\ pending = [n \in FnNames |-> NoDecl]
    /\ toEmit = <<>>
    /\ defaultMethods = <<>>
    /\ diagnosed = {}
    /\ diags = <<>>
    /\ repr = [n \in FnNames |-> NoDecl]
    /\ errors = <<>>
    /\ tagNames = {}
    /\ fatal = FALSE
    /\ ret = NoEnt
    /\ last = [op |-> "init", d |-> NoDecl]
    /\ seen = {}
    /\ lowerLog = <<>>
    /\ appendLog = <<>>

Init ==
    /\ SessionInit
    /\ tu = <<>>
    /\ pos = 0
    /\ phase = "open"

DriverVars == << tu, pos, phase, lowerLog >>

\* remember the result of the first visit of a declaration
Remember(key, s) ==
    IF s.fatal \/ \E r \in seen : r.k = key THEN seen
    ELSE seen \cup {[k |-> key, e |-> s.ret]}

FirstResult(key) == (CHOOSE r \in seen : r.k = key).e
WasVisited(key) == \E r \in seen : r.k = key

\* visit(decl) of a function declaration
VisitFunctionDecl(d, sh) ==
    /\ ~fatal
    /\ Commit(VisitFunctionLikeDecl(Cur, d, sh))
    /\ last' = [op |-> "VisitFunctionDecl", d |-> d]
    /\ UNCHANGED << seen, DriverVars >>

\* the initializer operations of a variable entity
InitOpsOf(decl) ==
    LET hit == lookup(symtab["vars"], Key("var", decl, 0))
    IN  IF hit = NoValue \/ mod[hit.e].blocks = <<>> THEN 0
        ELSE Len(mod[hit.e].blocks[1])

\* visit(decl) of a variable declaration at file scope
VisitGlobalVarDecl(v) ==
    /\ ~fatal
    /\ VarDecls[v].fn = NoDecl
    /\ InitOpsOf(v) < MaxInit
    /\ LET s == VisitVarDecl(Cur, v, NoEnt)
       IN  /\ Commit(s)
           /\ seen' = Remember(Key("var", v, 0), s)
    /\ last' = [op |-> "VisitVarDecl", d |-> v]
    /\ UNCHANGED DriverVars

\* visit(decl) of a parameter declaration outside of its function's body
VisitParm(d, i) ==
    /\ ~fatal
    /\ Len(errors) < MaxErrors
    /\ Commit(VisitParmVarDecl(Cur, d, i))
    /\ last' = [op |-> "VisitParmVarDecl", d |-> d, i |-> i]
    /\ UNCHANGED << seen, DriverVars >>

----------------------------------------------------------------------------
(* Function body lowering on its own: any definitions, in any order *)

BodyDecls == {6, 7, 8, 9, 10}

\* the function entities of the module
FuncOps == {e \in 1..Len(mod) : mod[e].kind = "func"}

\* the visit finds its entity, or the module has room for one more
HasRoom(d) ==
    \/ funcdecls[FunctionDecls[d].name] # NoEnt
    \/ Cardinality(FuncOps) < MaxFuncs

NextBody ==
    \/ \E d \in BodyDecls : \E sh \in FunctionDecls[d].shapes :
          HasRoom(d) /\ VisitFunctionDecl(d, sh)
    \/ VisitGlobalVarDecl(1)

SpecBody == Init /\ [][NextBody]_vars

----------------------------------------------------------------------------
(* Properties of function body lowering (SpecBody) *)

\* the function entities that have a body
Lowered == {e \in FuncOps : mod[e].blocks # <<>>}

LastOp(block) == block[Len(block)]

\* the block the search for the last operation ends in: the last block of
\* the region, or of the innermost trailing scope the search descends into
RECURSIVE InspectedBlock(_)
InspectedBlock(region) ==
    LET lb == region[Len(region)]
    IN  IF lb # <<>> /\ LastOp(lb).k = "scope" /\ process_scope(region)
        THEN InspectedBlock(LastOp(lb).body)
        ELSE lb

\* the last block of the region and, when it ends in a scope, the last
\* blocks of the trailing scopes nested in it
RECURSIVE TrailingBlocks(_)
TrailingBlocks(region) ==
    LET lb == region[Len(region)]
    IN  IF lb # <<>> /\ LastOp(lb).k = "scope"
        THEN {lb} \cup TrailingBlocks(LastOp(lb).body)
        ELSE {lb}

Terminators(block) == {j \in 1..Len(block) : is_terminator(block[j])}

RECURSIVE CountOps(_)
CountOps(region) ==
    LET InBlock(b) ==
            LET F[j \in 0..Len(b)] ==
                    IF j = 0 THEN 0
                    ELSE F[j - 1] + 1 + (IF b[j].k = "scope" THEN CountOps(b[j].body) ELSE 0)
            IN  F[Len(b)]
        G[j \in 0..Len(region)] == IF j = 0 THEN 0 ELSE G[j - 1] + InBlock(region[j])
    IN  G[Len(region)]

\* the body statement lowering left can fall off its end
FallsThrough(e) ==
    \/ mod[e].shape = 0
    \/ LET b == InspectedBlock(BodyShapes[mod[e].shape])
       IN  b = <<>> \/ ~is_terminator(LastOp(b))

PlainFunction(e) == ~RetVoid(mod[e].name) /\ ~IsMain(mod[e].name)

\* C4 as stated: every block of a lowered function -- its own last block and
\* the body blocks of the trailing scopes nested in it -- ends in exactly one
\* terminator, and a non-void, non-main function that can fall through ends
\* in an unreachable.
C4_TerminatorTotality_Original ==
    \A e \in Lowered :
        /\ \A b \in TrailingBlocks(mod[e].blocks) :
              /\ b # <<>>
              /\ is_terminator(LastOp(b))
              /\ Cardinality(Terminators(b)) = 1
        /\ (PlainFunction(e) /\ FallsThrough(e)) =>
              LastOp(mod[e].blocks[Len(mod[e].blocks)]).k = "unreachable"

\* C4 amended: the block the search for the last operation ended in (the
\* function's last block, or the last block of the innermost trailing scope
\* descended into) ends in a terminator; at most one terminator is
\* synthesized for a function; and a non-void, non-main function whose body
\* falls through ends there in an unreachable.
C4_TerminatorTotality ==
    \A e \in Lowered :
        LET b == InspectedBlock(mod[e].blocks)
            given == IF mod[e].shape = 0 THEN 0 ELSE CountOps(BodyShapes[mod[e].shape])
            added == CountOps(mod[e].blocks) - given
        IN  /\ b # <<>>
            /\ is_terminator(LastOp(b))
            /\ IF FallsThrough(e)
               THEN added = Len(emit_function_terminator(mod[e].by))
               ELSE added = 0
            /\ (PlainFunction(e) /\ FallsThrough(e)) => LastOp(b).k = "unreachable"

\* a non-void, non-main function whose body is a trailing scope that falls
\* through was lowered: the unreachable sits inside the scope
C4_Witness ==
    \E e \in Lowered :
        /\ PlainFunction(e)
        /\ mod[e].shape = 4
        /\ LastOp(mod[e].blocks[1]).k = "scope"
        /\ LastOp(InspectedBlock(mod[e].blocks)).k = "unreachable"

\* C5: the entry block of every lowered function definition has as many
\* arguments as the declaration has parameters, also when hasBody() is false.
C5_EntryBlockArity ==
    \A e \in Lowered : mod[e].nargs = FunctionDecls[mod[e].by].np


\* the keys a visit of function declaration d binds while it runs: the
\* parameters of d, the labels of d and the variables its body declares
BoundDuring(d) ==
    {[tab |-> "vars", key |-> Key("parm", d, i)] : i \in 1..FunctionDecls[d].np}
    \cup {[tab |-> "labels", key |-> Key("label", d, j)] : j \in 1..FunctionDecls[d].nlabels}
    \cup {[tab |-> "vars", key |-> Key("var", v, 0)] : v \in {w \in VarDeclIds : VarDecls[w].fn = d}}

\* every key some scope of the table binds
BoundKeys(stack) == {b.k : b \in UNION {stack[j] : j \in 1..Len(stack)}}

\* C10: a function visit discards the bindings of its own variable and
\* label scopes and no others: after it returned, no parameter, local or
\* label it bound is resolvable, every binding visible before it resolves to
\* the same value, and the references its body made resolved to the
\* bindings of the visit's own scope (the function's own entry arguments).
C10_ScopeLifetime ==
    [][ last'.op = "VisitFunctionDecl" /\ ~fatal' =>
          /\ \A b \in BoundDuring(last'.d) : lookup(symtab'[b.tab], b.key) = NoValue
          /\ \A t \in TableNames : \A k \in BoundKeys(symtab[t]) :
                lookup(symtab'[t], k) = lookup(symtab[t], k)
          /\ \A t \in TableNames : Len(symtab'[t]) = Len(symtab[t])
          /\ \A e \in 1..Len(mod') :
                (mod'[e].kind = "func" /\ mod'[e].by = last'.d) =>
                    \A j \in 1..Len(mod'[e].refs) :
                        \/ mod'[e].refs[j] = NoValue
                        \/ mod'[e].refs[j] = Val(e, FunctionDecls[last'.d].prefs[j])
      ]_vars

\* the visit of k's definition has returned: its body's references resolved
\* to its entry arguments, its parameters, label and local are gone, and the
\* global bound before the visit is still resolvable
C10_Witness ==
    /\ last.op = "VisitFunctionDecl"
    /\ last.d = 7
    /\ \E e \in Lowered :
          /\ mod[e].by = 7
          /\ mod[e].refs = <<Val(e, 1), Val(e, 2)>>
          /\ \E l \in 1..Len(mod) : mod[l].kind = "label" /\ mod[l].parent = e
          /\ \E l \in 1..Len(mod) : mod[l].kind = "var" /\ mod[l].parent = e
    /\ \E g \in 1..Len(mod) :
          /\ mod[g].kind = "var" /\ mod[g].parent = NoEnt /\ g < funcdecls["k"]
          /\ lookup(symtab["vars"], Key("var", 1, 0)) = Val(g, 0)
    /\ \A b \in BoundDuring(7) : lookup(symtab[b.tab], b.key) = NoValue

----------------------------------------------------------------------------
(* Tags, enums, typedefs: the AST *)

TD(name, tag, kind, complete, prev, fields, enumerators) ==
    [name |-> name, tag |-> tag, kind |-> kind, complete |-> complete,
     prev |-> prev, fields |-> fields, enumerators |-> enumerators]

(* The tag declarations.  tag: the logical tag; kind: "struct", "union" or  *)
(* "enum"; complete: isCompleteDefinition() (isComplete() of an enum);      *)
(* prev: getPreviousDecl() (0: isFirstDecl()); fields: the FieldDecl        *)
(* children; enumerators: the EnumConstantDecl children.                    *)
TagDecls == <<
    \*  1: struct Node;
    TD("Node", 1, "struct", FALSE, 0, <<>>, <<>>),
    \*  2: struct Node;
    TD("Node", 1, "struct", FALSE, 1, <<>>, <<>>),
    \*  3: struct Node { struct Node *next; int v; };
    TD("Node", 1, "struct", TRUE, 2, <<1, 2>>, <<>>),
    \*  4: struct Outer { struct Inner { int a; } x, y; };
    TD("Outer", 2, "struct", TRUE, 0, <<3, 4>>, <<>>),
    \*  5: struct Inner { int a; }  (defined inside Outer)
    TD("Inner", 3, "struct", TRUE, 0, <<5>>, <<>>),
    \*  6: enum E;
    TD("E", 4, "enum", FALSE, 0, <<>>, <<>>),
    \*  7: enum E;
    TD("E", 4, "enum", FALSE, 6, <<>>, <<>>),
    \*  8: enum E { A, B };
    TD("E", 4, "enum", TRUE, 7, <<>>, <<1, 2>>),
    \*  9: enum F { X };
    TD("F", 5, "enum", TRUE, 0, <<>>, <<3>>),
    \* 10: union U { int a; };
    TD("U", 6, "union", TRUE, 0, <<6>>, <<>>),
    \* 11: enum E;  (after the definition)
    TD("E", 4, "enum", FALSE, 8, <<>>, <<>>)
>>

TagDeclIds == 1..Len(TagDecls)
RecordDeclIds == {t \in TagDeclIds : TagDecls[t].kind \in {"struct", "union"}}
EnumDeclIds == {t \in TagDeclIds : TagDecls[t].kind = "enum"}

\* the field declarations: the tag definition the field's type is, by
\* value (getType()->getAsTagDecl()), or 0 (a pointer or a builtin type)
FieldTagDecl == <<0, 0, 5, 5, 0, 0>>

\* the typedef declarations: the tag declaration walk_type finds in the
\* underlying type (tag->getDecl()), or 0
\* 1: typedef int myint;   2: typedef struct Node *NodePtr;
TypedefTagDecl == <<0, 3>>
TypedefIds == 1..Len(TypedefTagDecl)

EnumConstantIds == 1..3

----------------------------------------------------------------------------
(* Tag, enum, typedef lowering *)

\* context().decl_name(decl) of a tag: the context remembers the tag
decl_name(s, decl) == [s EXCEPT !.tagNames = @ \cup {decl}]

\* insert `op` as the last member of the region of `parent`
AddMember(s, parent) ==
    IF parent = NoEnt THEN s
    ELSE [s EXCEPT !.mod[parent].members = Append(@, s.ret)]

VisitEnumConstantDecl(s, decl, parent) ==
    declare(s, "enumconsts", Key("enumconst", decl, 0),
            make(s, NewOp("enumconst", "C", Key("enumconst", decl, 0), parent, 0, "none")))

\* a visit of the enumerators that puts each new constant at the very front
\* of the region, before the one it inserted last
RECURSIVE visit_enumerators_front(_, _, _, _, _)
visit_enumerators_front(s, cons, enum, at, j) ==
    IF j > Len(cons) THEN s
    ELSE With(VisitEnumConstantDecl(s, cons[j], enum), LAMBDA s1 :
             IF Len(s1.mod) > Len(s.mod)
             THEN visit_enumerators_front(
                      [s1 EXCEPT !.mod[enum].members =
                          SubSeq(@, 1, at - 1) \o <<s1.ret>> \o SubSeq(@, at, Len(@))],
                      cons, enum, at, j + 1)
             ELSE visit_enumerators_front(s1, cons, enum, at, j + 1))

\* visit the enumerators with the insertion point inside `enum`: the new
\* constants are inserted, in order, at position `at` of its region
RECURSIVE visit_enumerators(_, _, _, _, _)
visit_enumerators(s, cons, enum, at, j) ==
    IF j > Len(cons) THEN s
    ELSE With(VisitEnumConstantDecl(s, cons[j], enum), LAMBDA s1 :
             IF Len(s1.mod) > Len(s.mod)
             THEN visit_enumerators(
                      [s1 EXCEPT !.mod[enum].members =
                          SubSeq(@, 1, at - 1) \o <<s1.ret>> \o SubSeq(@, at, Len(@))],
                      cons, enum, at + 1, j + 1)
             ELSE visit_enumerators(s1, cons, enum, at, j + 1))

\* the forward enum entity an earlier declaration of the chain is bound to
RECURSIVE previous_enum_op(_, _)
previous_enum_op(s, prev) ==
    IF prev = NoDecl THEN [op |-> NoEnt, decl |-> NoDecl]
    ELSE LET hit == lookup(s.symtab["enumdecls"], Key("enum", prev, 0))
         IN  IF hit # NoValue THEN [op |-> hit.e, decl |-> prev]
             ELSE previous_enum_op(s, TagDecls[prev].prev)

\* an enum visit that never looks at the earlier declarations of the chain:
\* every declaration gets an entity of its own
VisitEnumDecl_separate(s, decl, parent) ==
    LET D == TagDecls[decl]
        key == Key("enum", decl, 0)
        forward == make(s, NewOp("enum", D.name, key, parent, 0, "none"))
        complete ==
            With(make(s, NewOp("enum", D.name, key, parent, 1, "none")), LAMBDA created :
                [visit_enumerators(created, D.enumerators, created.ret, 1, 1)
                    EXCEPT !.ret = created.ret])
    IN  declare(s, "enumdecls", key, IF D.complete THEN complete ELSE forward)

VisitEnumDecl(s, decl, parent) ==
    LET D == TagDecls[decl]
        key == Key("enum", decl, 0)
        forward == make(s, NewOp("enum", D.name, key, parent, 0, "none"))
        complete ==
            With(make(s, NewOp("enum", D.name, key, parent, 1, "none")), LAMBDA created :
                [visit_enumerators(created, D.enumerators, created.ret, 1, 1)
                    EXCEPT !.ret = created.ret])
    IN  IF D.prev # NoDecl /\ ~D.complete
        THEN [s EXCEPT !.ret = lookup(s.symtab["enumdecls"], Key("enum", D.prev, 0)).e]
        ELSE With(previous_enum_op(s, D.prev), LAMBDA found :
            IF D.prev # NoDecl /\ found.op # NoEnt
            THEN IF TagDecls[found.decl].complete THEN Fatal(s)
                 ELSE [visit_enumerators([s EXCEPT !.mod[found.op].type = 1],
                                         D.enumerators, found.op, 1, 1)
                          EXCEPT !.ret = found.op]
            ELSE declare(s, "enumdecls", key, IF D.complete THEN complete ELSE forward))

RECURSIVE make_record_decl(_, _, _)

\* a field visit that lowers the tag definition of its type whether or not
\* the context has named it
VisitFieldDecl_always(s, decl, parent) ==
    LET tag == FieldTagDecl[decl]
        field == NewOp("field", "f", Key("field", decl, 0), parent, 0, "none")
    IN  IF tag # NoDecl /\ TagDecls[tag].complete
        THEN With(IF TagDecls[tag].kind = "enum" THEN VisitEnumDecl(s, tag, parent)
                  ELSE make_record_decl(s, tag, parent),
                  LAMBDA nested :
                      AddMember(make(IF Len(nested.mod) > Len(s.mod)
                                     THEN AddMember(nested, parent) ELSE nested,
                                     field),
                                parent))
        ELSE AddMember(make(s, field), parent)

\* VisitFieldDecl: a field whose type is a tag definition the context has
\* not named yet lowers that tag first
VisitFieldDecl(s, decl, parent) ==
    LET tag == FieldTagDecl[decl]
        field == NewOp("field", "f", Key("field", decl, 0), parent, 0, "none")
    IN  IF tag # NoDecl /\ TagDecls[tag].complete /\ tag \notin s.tagNames
        THEN With(IF TagDecls[tag].kind = "enum" THEN VisitEnumDecl(s, tag, parent)
                  ELSE make_record_decl(s, tag, parent),
                  LAMBDA nested :
                      AddMember(make(IF Len(nested.mod) > Len(s.mod)
                                     THEN AddMember(nested, parent) ELSE nested,
                                     field),
                                parent))
        ELSE AddMember(make(s, field), parent)

RECURSIVE visit_fields(_, _, _, _)
visit_fields(s, fields, record, j) ==
    IF j > Len(fields) THEN s
    ELSE visit_fields(VisitFieldDecl(s, fields[j], record), fields, record, j + 1)

make_record_decl(s, decl, parent) ==
    LET D == TagDecls[decl]
        key == Key("tag", decl, 0)
        s1 == decl_name(s, decl)
    IN  IF ~D.complete
        THEN declare(s1, "typedecls", key,
                     make(s1, NewOp("typedecl", D.name, key, parent, 0, "none")))
        ELSE With(make(s1, NewOp(D.kind, D.name, key, parent, 0, "none")), LAMBDA record :
                 [visit_fields(record, D.fields, record.ret, 1) EXCEPT !.ret = record.ret])

VisitRecordDecl(s, decl) == make_record_decl(s, decl, NoEnt)

\* the type() of VisitTypedefDecl: predeclare the tag of the underlying type
VisitTypedefDecl(s, decl) ==
    LET key == Key("typedef", decl, 0)
        tag == TypedefTagDecl[decl]
        s1 == IF tag = NoDecl THEN s
              ELSE IF TagDecls[tag].kind = "enum" THEN VisitEnumDecl(s, tag, NoEnt)
              ELSE VisitRecordDecl(s, tag)
    IN  declare(s, "typedefs", key,
                make(s1, NewOp("typedef", "T", key, NoEnt, 0, "none")))

----------------------------------------------------------------------------
(* Declarations on their own: tags, enums, typedefs, labels, variables,    *)
(* visited in any order, any number of times                               *)

LabelKeys == {Key("label", 7, 1)}

\* one visit(decl): the handler runs, its result is remembered the first time
VisitDecl(op, d, key, s) ==
    /\ ~fatal
    /\ WasVisited(key) \/ Cardinality(seen) < MaxDecls
    /\ Len(s.mod) <= MaxOps
    /\ Commit(s)
    /\ seen' = Remember(key, s)
    /\ last' = [op |-> op, d |-> d, again |-> WasVisited(key)]
    /\ UNCHANGED DriverVars

VisitRecord(t) ==
    VisitDecl("VisitRecordDecl", t, Key("tag", t, 0), VisitRecordDecl(Cur, t))

VisitEnum(t) ==
    VisitDecl("VisitEnumDecl", t, Key("enum", t, 0), VisitEnumDecl(Cur, t, NoEnt))

VisitEnumConstant(c) ==
    VisitDecl("VisitEnumConstantDecl", c, Key("enumconst", c, 0),
              VisitEnumConstantDecl(Cur, c, NoEnt))

VisitTypedef(y) ==
    VisitDecl("VisitTypedefDecl", y, Key("typedef", y, 0), VisitTypedefDecl(Cur, y))

VisitLabel(k) ==
    VisitDecl("VisitLabelDecl", k.d, k, VisitLabelDecl(Cur, k, NoEnt))

VisitVar(v) ==
    /\ VarDecls[v].fn = NoDecl
    /\ InitOpsOf(v) < MaxInit
    /\ VisitDecl("VisitVarDecl", v, Key("var", v, 0), VisitVarDecl(Cur, v, NoEnt))

NextDecl ==
    \/ \E t \in RecordDeclIds : VisitRecord(t)
    \/ \E t \in EnumDeclIds : VisitEnum(t)
    \/ \E c \in EnumConstantIds : VisitEnumConstant(c)
    \/ \E y \in TypedefIds : VisitTypedef(y)
    \/ \E k \in LabelKeys : VisitLabel(k)
    \/ \E v \in VarDeclIds : VisitVar(v)

SpecDecl == Init /\ [][NextDecl]_vars

----------------------------------------------------------------------------
(* Properties of declaration lowering (SpecDecl) *)

DeclVisitOps ==
    {"VisitRecordDecl", "VisitEnumDecl", "VisitEnumConstantDecl",
     "VisitTypedefDecl", "VisitLabelDecl", "VisitVarDecl"}

\* the key a visit is remembered under, and the table its handler declares in
VisitKey(l) ==
    CASE l.op = "VisitRecordDecl" -> Key("tag", l.d, 0)
      [] l.op = "VisitEnumDecl" -> Key("enum", l.d, 0)
      [] l.op = "VisitEnumConstantDecl" -> Key("enumconst", l.d, 0)
      [] l.op = "VisitTypedefDecl" -> Key("typedef", l.d, 0)
      [] l.op = "VisitLabelDecl" -> Key("label", l.d, 1)
      [] l.op = "VisitVarDecl" -> Key("var", l.d, 0)

VisitTable(l) ==
    CASE l.op = "VisitEnumConstantDecl" -> "enumconsts"
      [] l.op = "VisitTypedefDecl" -> "typedefs"
      [] l.op = "VisitLabelDecl" -> "labels"
      [] l.op = "VisitVarDecl" -> "vars"

\* C1: visiting a declaration that was visited before returns the entity the
\* first visit returned and adds no entity to the module.
C1_IdempotentDeclaration ==
    [][ (last'.op \in DeclVisitOps /\ ~fatal' /\ WasVisited(VisitKey(last'))) =>
            /\ ret' = FirstResult(VisitKey(last'))
            /\ Len(mod') = Len(mod)
      ]_vars

\* the entities that stand for a record tag: forward declarations and
\* record definitions
TagOps(tag) ==
    {e \in 1..Len(mod) :
        /\ mod[e].kind \in {"typedecl", "struct", "union"}
        /\ TagDecls[mod[e].key.d].tag = tag}

\* C2: once the forward declarations of a record tag and then its complete
\* definition have been visited, the module holds one entity for the tag:
\* the forward entity, completed in place.
C2_TagCompletionInPlace ==
    \A t \in RecordDeclIds :
        LET ops == TagOps(TagDecls[t].tag)
            defs == {e \in ops : mod[e].kind # "typedecl"}
        IN  (Cardinality(defs) = 1 /\ \A e \in ops \ defs : \A f \in defs : e < f)
                => Cardinality(ops) = 1

DeclareOps ==
    {"VisitEnumConstantDecl", "VisitTypedefDecl", "VisitLabelDecl", "VisitVarDecl"}

\* C9: a handler that declares through the symbol table returns the bound
\* entity without building anything when the declaration is bound in the
\* scope chain; otherwise it builds one entity, binds it and returns it.
\* No declaration has two entities while its scope lives.
C9_DeclareGetOrCreate ==
    [][ (last'.op \in DeclareOps /\ ~fatal') =>
            LET k == VisitKey(last')
                t == VisitTable(last')
                hit == lookup(symtab[t], k)
            IN  /\ IF hit # NoValue
                   THEN /\ ret' = hit.e
                        /\ Len(mod') = Len(mod)
                        /\ symtab' = symtab
                   ELSE /\ ret' \in (Len(mod) + 1)..Len(mod')
                        /\ mod'[ret'].key = k
                        /\ lookup(symtab'[t], k) = Val(ret', 0)
                /\ Cardinality({e \in 1..Len(mod') : mod'[e].key = k}) = 1
      ]_vars

\* a label was visited again: the visit returned the label entity of the
\* first visit, the only one in the module
C9_Witness ==
    /\ last.op = "VisitLabelDecl"
    /\ last.again
    /\ ret = FirstResult(VisitKey(last))
    /\ Cardinality({e \in 1..Len(mod) : mod[e].kind = "label"}) = 1

----------------------------------------------------------------------------
(* The resolver and the function visits, called in any order *)

ResolverDecls == {1, 2, 3, 4}

Emitions ==
    {emit_definition, emit_declaration, deferred_emit_definition,
     Emition(TRUE, FALSE, FALSE, FALSE), Emition(FALSE, TRUE, FALSE, FALSE)}

\* a caller asks the resolver for the function of a declaration
GetAddrOfFunction(d, fty, emit) ==
    /\ ~fatal
    /\ Commit(get_addr_of_function(Cur, d, fty, emit))
    /\ last' = IF fatal' THEN last ELSE [op |-> "get_addr_of_function", d |-> d]
    /\ UNCHANGED << seen, DriverVars >>

Next ==
    \/ \E d \in ResolverDecls : \E sh \in FunctionDecls[d].shapes :
          VisitFunctionDecl(d, sh) /\ Len(diags') <= MaxDiags
    \/ \E d \in ResolverDecls : \E fty \in {visit_function_type(d), NotFnType} :
          \E emit \in Emitions : GetAddrOfFunction(d, fty, emit) /\ Len(diags') <= MaxDiags

Spec == Init /\ [][Next]_vars

----------------------------------------------------------------------------
(* Properties of the resolver (Spec) *)

\* C3: the module holds one function entity per name; every call a lowered
\* body makes refers to the entity of the callee's name, the one the function
\* table binds; and f, whose body ends in a return, is left as statement
\* lowering made it.
C3_OneEntityPerName ==
    ~fatal =>
        /\ \A e1, e2 \in FuncOps : mod[e1].name = mod[e2].name => e1 = e2
        /\ \A e \in Lowered :
              LET calls == FunctionDecls[mod[e].by].calls
              IN  /\ Len(mod[e].callees) = Len(calls)
                  /\ \A j \in 1..Len(calls) :
                        /\ mod[e].callees[j] \in FuncOps
                        /\ mod[mod[e].callees[j]].name = FunctionDecls[calls[j]].name
                        /\ mod[e].callees[j] = funcdecls[FunctionDecls[calls[j]].name]
        /\ \A e \in Lowered : mod[e].by = 4 => mod[e].blocks = BodyShapes[3]

\* g was declared, f was lowered calling it, then g was defined: the entity
\* f refers to carries g's body
C3_Witness ==
    /\ ~fatal
    /\ repr["g"] = 1
    /\ last.op = "VisitFunctionDecl"
    /\ last.d = 2
    /\ \E e \in Lowered :
          /\ mod[e].by = 4
          /\ mod[e].callees = <<funcdecls["g"]>>
          /\ funcdecls["g"] < e
          /\ mod[funcdecls["g"]].by = 2
          /\ mod[funcdecls["g"]].blocks # <<>>

\* C6: the duplicate-name diagnostic is emitted at most once for a name,
\* whatever redeclaration the resolver is called with.
C6_AtMostOnceDiagnosis ==
    \A n \in FnNames : Cardinality({i \in 1..Len(diags) : diags[i].name = n}) <= 1

----------------------------------------------------------------------------
(* A translation unit under the driver: the top-level pass in source       *)
(* order, then the drain of the to-emit queue                              *)

TUDecls == {1, 2, 4, 5, 8}

\* a declaration precedes every body that refers to it
WellOrdered(t) ==
    \A i \in 1..Len(t) : \A j \in 1..Len(FunctionDecls[t[i]].calls) :
        \E h \in 1..(i - 1) : t[h] = FunctionDecls[t[i]].calls[j]

TranslationUnits ==
    {t \in UNION {[1..n -> TUDecls] : n \in 1..MaxTU} :
        /\ \A i, j \in 1..Len(t) : t[i] = t[j] => i = j
        /\ WellOrdered(t)}

InitTU ==
    /\ SessionInit
    /\ tu \in TranslationUnits
    /\ pos = 1
    /\ phase = "top"

\* a top-level loop that walks the declarations backwards
TopDecl_backwards(i) == tu[Len(tu) + 1 - i]

\* the declaration the top-level loop is at
TopDecl(i) == tu[i]

\* the loop of VisitTranslationUnitDecl visits the next declaration
TopLevelVisit ==
    /\ ~fatal
    /\ phase = "top"
    /\ pos <= Len(tu)
    /\ \E sh \in FunctionDecls[TopDecl(pos)].shapes :
          Commit(VisitFunctionLikeDecl(Cur, TopDecl(pos), sh))
    /\ lowerLog' = Append(lowerLog, [d |-> TopDecl(pos), phase |-> "top"])
    /\ pos' = pos + 1
    /\ last' = [op |-> "VisitFunctionDecl", d |-> TopDecl(pos)]
    /\ UNCHANGED << seen, tu, phase >>

\* the driver sets the next definition aside: seen, not yet required
TopLevelDefer ==
    /\ ~fatal
    /\ phase = "top"
    /\ pos <= Len(tu)
    /\ FunctionDecls[TopDecl(pos)].isDef
    /\ pending' = [pending EXCEPT ![FunctionDecls[TopDecl(pos)].name] = TopDecl(pos)]
    /\ pos' = pos + 1
    /\ last' = [op |-> "defer", d |-> TopDecl(pos)]
    /\ UNCHANGED << mod, funcdecls, symtab, toEmit, defaultMethods, diagnosed, diags,
                    repr, errors, tagNames, fatal, ret, appendLog, seen, tu, phase,
                    lowerLog, ppl >>

\* the driver lowers the declaration at the head of the to-emit queue
EmitDeferred ==
    /\ ~fatal
    /\ phase = "drain"
    /\ toEmit # <<>>
    /\ \E sh \in FunctionDecls[Head(toEmit)].shapes :
          Commit(VisitFunctionLikeDecl([Cur EXCEPT !.toEmit = Tail(@)], Head(toEmit), sh))
    /\ lowerLog' = Append(lowerLog, [d |-> Head(toEmit), phase |-> "drain"])
    /\ last' = [op |-> "emit_deferred", d |-> Head(toEmit)]
    /\ UNCHANGED << seen, tu, pos, phase >>

\* the top-level pass is over; the queue is empty
NextPhase ==
    /\ ~fatal
    /\ \/ phase = "top" /\ pos > Len(tu) /\ phase' = "drain"
       \/ phase = "drain" /\ toEmit = <<>> /\ phase' = "done"
    /\ UNCHANGED << mod, funcdecls, symtab, pending, toEmit, defaultMethods, diagnosed,
                    diags, repr, errors, tagNames, fatal, ret, last, seen, tu, pos,
                    lowerLog, appendLog, ppl >>

NextTU ==
    \/ TopLevelVisit
    \/ TopLevelDefer
    \/ EmitDeferred
    \/ NextPhase

SpecTU == InitTU /\ [][NextTU]_vars

----------------------------------------------------------------------------
(* Properties of a driven translation unit (SpecTU) *)

PosInTU(d) == CHOOSE p \in 1..Len(tu) : tu[p] = d
InTU(d) == \E p \in 1..Len(tu) : tu[p] = d

\* C7: when the pass is over, every function a lowered body calls whose
\* definition appears later in the translation unit has a lowered body.
C7_DeferredPromotion ==
    (phase = "done" /\ ~fatal) =>
        \A e \in Lowered :
            LET calls == FunctionDecls[mod[e].by].calls
            IN  \A j \in 1..Len(calls) :
                    LET def == getDefinition(calls[j])
                    IN  (/\ def # NoDecl
                         /\ InTU(def)
                         /\ PosInTU(def) > PosInTU(mod[e].by))
                            => mod[mod[e].callees[j]].blocks # <<>>

IsTop(r) == r.phase = "top"
IsDrain(r) == r.phase = "drain"

\* C8: the top-level declarations are lowered in source order; the deferred
\* ones are lowered after the top-level pass, in the order in which they
\* were appended to the to-emit queue.
C8_DrainOrder ==
    LET top == SelectSeq(lowerLog, IsTop)
        drained == SelectSeq(lowerLog, IsDrain)
    IN  /\ lowerLog = top \o drained
        /\ \A i, j \in 1..Len(top) : i < j => PosInTU(top[i].d) < PosInTU(top[j].d)
        /\ phase = "top" => drained = <<>>
        /\ Len(drained) <= Len(appendLog)
        /\ \A i \in 1..Len(drained) : drained[i].d = appendLog[i]
        /\ toEmit = SubSeq(appendLog, Len(drained) + 1, Len(appendLog))

\* h was lowered at the top level after f and v had been set aside; f and v
\* were queued in the order h called them and drained in that order
C8_Witness ==
    /\ phase = "done"
    /\ tu = <<1, 4, 8, 5>>
    /\ lowerLog = << [d |-> 1, phase |-> "top"], [d |-> 5, phase |-> "top"],
                     [d |-> 8, phase |-> "drain"], [d |-> 4, phase |-> "drain"] >>


----------------------------------------------------------------------------
(* The search for the last operation (SpecBody) *)

\* the body statement lowering left for entity e
Given(e) == BodyShapes[mod[e].shape]

EndsInScope(region) ==
    LET lb == region[Len(region)]
    IN  lb # <<>> /\ LastOp(lb).k = "scope"

\* the function visits that lowered a body statement lowering had filled
Filled == {e \in Lowered : mod[e].shape # 0}

(* given is what statement lowering left in a region and done is the       *)
(* region after the terminator was dealt with.  Where the last operation   *)
(* of given's last block is a scope, either the search descended -- the    *)
(* block of the scope is as long as it was and the rule holds inside the   *)
(* scope -- or the scope was taken as the last operation: it is unchanged  *)
(* and the terminator follows it.  own: the search descends when the       *)
(* scope's own last block holds exactly one operation; otherwise it        *)
(* descends when the region that holds the scope has one block and that    *)
(* block holds the scope alone.                                            *)
RECURSIVE DescentRule(_, _, _, _)
DescentRule(given, done, term, own) ==
    LET n == Len(given)
        lb == given[n]
        sc == LastOp(lb)
        descends == IF own THEN Len(sc.body[Len(sc.body)]) = 1
                    ELSE Len(given) = 1 /\ Len(lb) = 1
    IN  EndsInScope(given) =>
            IF descends
            THEN /\ Len(done[n]) = Len(lb)
                 /\ DescentRule(sc.body, LastOp(done[n]).body, term, own)
            ELSE done[n] = lb \o term

\* C13 as stated: where the last operation of the last block is a scope,
\* the search descends into it exactly when the scope's own last block
\* holds exactly one operation; otherwise the scope is the last operation.
C13_DescentCondition_Original ==
    \A e \in Filled :
        DescentRule(Given(e), mod[e].blocks, emit_function_terminator(mod[e].by), TRUE)

\* C13 amended: the search descends into a trailing scope exactly when the
\* region that holds the scope has one block and the scope is the only
\* operation of that block, whatever the scope holds; otherwise the scope is
\* the last operation and the terminator follows it.
C13_DescentCondition ==
    \A e \in Filled :
        DescentRule(Given(e), mod[e].blocks, emit_function_terminator(mod[e].by), FALSE)

\* a function was lowered from a body whose trailing scope follows another
\* operation, and another from a trailing scope of two operations that ends
\* in a return
C13_Witness ==
    /\ \E e \in Filled : mod[e].shape = 6 /\ LastOp(mod[e].blocks[1]).k = "unreachable"
    /\ \E e \in Filled :
          /\ mod[e].shape = 5
          /\ mod[e].blocks = Given(e)
          /\ Len(LastOp(Given(e)[1]).body[1]) = 2

----------------------------------------------------------------------------
(* The terminator (SpecBody) *)

\* the terminators of a region, those of its nested scopes included
RECURSIVE CountTerminators(_)
CountTerminators(region) ==
    LET InBlock(b) ==
            LET F[j \in 0..Len(b)] ==
                    IF j = 0 THEN 0
                    ELSE F[j - 1] + (IF is_terminator(b[j]) THEN 1 ELSE 0)
                                  + (IF b[j].k = "scope" THEN CountTerminators(b[j].body)
                                     ELSE 0)
            IN  F[Len(b)]
        G[j \in 0..Len(region)] == IF j = 0 THEN 0 ELSE G[j - 1] + InBlock(region[j])
    IN  G[Len(region)]

\* the region before the terminator was dealt with: what statement lowering
\* left, or the empty entry block of a definition without a body
Before(e) == IF mod[e].shape = 0 THEN << <<>> >> ELSE Given(e)

\* the operations the function's kind asks for
ExpectedTerminator(e) ==
    IF RetVoid(mod[e].name) THEN <<"const", "implicit_return">>
    ELSE IF IsMain(mod[e].name) THEN <<"const", "ret">>
    ELSE <<"unreachable">>

Kinds(ops) == [j \in 1..Len(ops) |-> ops[j].k]

\* C14: when the last operation the search found is a terminator or a
\* return, the region is left as statement lowering made it; otherwise one
\* terminator is added where the search ended: an implicit return of a void
\* constant for a void function, a return of a zero constant for a non-void
\* main, an unreachable for any other function.  A body that is one
\* trailing scope ending in a return is left as it is.
C14_TerminatorChoice ==
    \A e \in Lowered :
        LET found == InspectedBlock(Before(e))
            after == InspectedBlock(mod[e].blocks)
        IN  /\ IF found # <<>> /\ is_terminator(LastOp(found))
               THEN mod[e].blocks = Before(e)
               ELSE /\ CountTerminators(mod[e].blocks) = CountTerminators(Before(e)) + 1
                    /\ CountOps(mod[e].blocks) =
                           CountOps(Before(e)) + Len(ExpectedTerminator(e))
                    /\ Len(after) = Len(found) + Len(ExpectedTerminator(e))
                    /\ SubSeq(after, 1, Len(found)) = found
                    /\ Kinds(SubSeq(after, Len(found) + 1, Len(after)))
                           = ExpectedTerminator(e)
            /\ (/\ Len(Before(e)) = 1
                /\ Len(Before(e)[1]) = 1
                /\ EndsInScope(Before(e))
                /\ LET inner == LastOp(Before(e)[1]).body
                   IN  /\ inner[Len(inner)] # <<>>
                       /\ LastOp(inner[Len(inner)]).k = "ret")
                  => mod[e].blocks = Before(e)

\* main was lowered from a trailing scope that ends in a return, and a void
\* function from a body that falls through
C14_Witness ==
    /\ \E e \in Lowered :
          /\ IsMain(mod[e].name)
          /\ mod[e].shape = 5
          /\ CountTerminators(mod[e].blocks) = 1
    /\ \E e \in Lowered :
          /\ RetVoid(mod[e].name)
          /\ mod[e].shape = 2
          /\ Kinds(mod[e].blocks[1]) = <<"op", "const", "implicit_return">>

----------------------------------------------------------------------------
(* Where the terminator is placed (SpecBody) *)

IsPrefix(a, b) == Len(a) <= Len(b) /\ SubSeq(b, 1, Len(a)) = a

(* done differs from given only in the block whose last operation the      *)
(* search inspected last, and there only by operations added at its end:   *)
(* the last block of the region, or, when the region is one block that     *)
(* holds a scope alone, the block found by the same rule in that scope.    *)
RECURSIVE OnlyInspectedBlockGrows(_, _)
OnlyInspectedBlockGrows(given, done) ==
    LET n == Len(given)
    IN  /\ Len(done) = n
        /\ \A i \in 1..(n - 1) : done[i] = given[i]
        /\ IF EndsInScope(given) /\ n = 1 /\ Len(given[1]) = 1
           THEN /\ Len(done[1]) = 1
                /\ done[1][1].k = "scope"
                /\ OnlyInspectedBlockGrows(given[1][1].body, done[1][1].body)
           ELSE IsPrefix(given[n], done[n])

\* the scopes the search descends into
RECURSIVE DescentDepth(_)
DescentDepth(region) ==
    IF EndsInScope(region) /\ Len(region) = 1 /\ Len(region[1]) = 1
    THEN 1 + DescentDepth(region[1][1].body)
    ELSE 0

\* C15: a synthesized terminator is placed at the end of the body of the
\* innermost scope the search descended into, or, without a descent, at the
\* end of the function's last block; every other block is left as statement
\* lowering made it.
C15_TerminatorPlacement ==
    \A e \in Lowered : OnlyInspectedBlockGrows(Before(e), mod[e].blocks)

\* a terminator was placed two scopes deep: the function's block and the
\* block of the outer scope hold what they held
C15_Witness ==
    \E e \in Lowered :
        /\ DescentDepth(Before(e)) = 2
        /\ mod[e].blocks # Before(e)
        /\ Len(mod[e].blocks[1]) = 1
        /\ Len(mod[e].blocks[1][1].body[1]) = 1
        /\ LastOp(InspectedBlock(mod[e].blocks)).k = "unreachable"

----------------------------------------------------------------------------
(* The resolver with a ledger: the driver sets definitions aside, callers   *)
(* ask the resolver for functions, one call at a step                      *)

LedgerDecls == {2, 5, 11, 12, 13}

\* the definitions the driver may set aside; one per name
LedgerDefs == {2, 5}

LedgerVisits == {2}

\* the types a caller may ask for: the declaration's, another function
\* type, and a type that is not a function type
RequestTypes(d) == {visit_function_type(d), visit_function_type(d) + 1, NotFnType}

WasDeferred(n) ==
    \E r \in seen : r.k.t = "defer" /\ FunctionDecls[r.k.d].name = n

\* the driver sets a definition aside: seen, not yet required
DeferDecl(d) ==
    /\ ~fatal
    /\ FunctionDecls[d].isDef
    /\ ~WasDeferred(FunctionDecls[d].name)
    /\ pending' = [pending EXCEPT ![FunctionDecls[d].name] = d]
    /\ seen' = seen \cup {[k |-> Key("defer", d, 0), e |-> NoEnt]}
    /\ last' = [op |-> "defer", d |-> d]
    /\ UNCHANGED << mod, funcdecls, symtab, toEmit, defaultMethods, diagnosed, diags,
                    repr, errors, tagNames, fatal, ret, appendLog, DriverVars, ppl >>

\* a caller asks the resolver for the function of a declaration
Request(d, fty, emit) ==
    /\ ~fatal
    /\ HasRoom(d)
    /\ Commit(get_addr_of_function(Cur, d, fty, emit))
    /\ last' = [op |-> "get_addr_of_function", d |-> d, fty |-> fty, emit |-> emit]
    /\ UNCHANGED << seen, DriverVars >>

NextLedger ==
    \/ \E d \in LedgerDefs : DeferDecl(d)
    \/ \E d \in LedgerDecls : \E fty \in RequestTypes(d) : \E emit \in Emitions :
          Request(d, fty, emit) /\ Len(diags') <= MaxDiags
    \/ \E d \in LedgerVisits : \E sh \in FunctionDecls[d].shapes :
          HasRoom(d) /\ VisitFunctionDecl(d, sh)
    \/ VisitGlobalVarDecl(4)

SpecLedger == Init /\ [][NextLedger]_vars

----------------------------------------------------------------------------
(* Properties of the resolver with a ledger (SpecLedger) *)

IsRequest(l) == l.op = "get_addr_of_function"

\* what the resolver does not implement
Unsupported(d, emit) ==
    \/ emit.for_vtable
    \/ emit.thunk
    \/ FunctionDecls[d].attrs \cap {"multiversion", "consteval", "dtor"} # {}

\* C11: a request for a vtable, for a thunk, for a multi-version function,
\* for a consteval function or for a destructor aborts; at the abort no
\* function entity was created, and the module's symbols, the function
\* table, the pending set, the to-emit queue, the default-methods queue and
\* the diagnosed-conflicts set are what they were before the request.
C11_FailFast ==
    [][(IsRequest(last') /\ Unsupported(last'.d, last'.emit)) =>
          /\ fatal'
          /\ ret' = NoEnt
          /\ mod' = mod
          /\ funcdecls' = funcdecls
          /\ pending' = pending
          /\ toEmit' = toEmit
          /\ defaultMethods' = defaultMethods
          /\ diagnosed' = diagnosed
          /\ diags' = diags]_vars

\* the destructor was asked for, with deferral, while a definition was
\* pending and an entity existed: the session aborted
C11_Witness ==
    /\ fatal
    /\ IsRequest(last)
    /\ last.d = 13
    /\ last.emit = deferred_emit_definition
    /\ last.fty = visit_function_type(13)
    /\ mod # <<>>
    /\ \E n \in FnNames : pending[n] # NoDecl


----------------------------------------------------------------------------
(* Parameter declarations: function visits, and visits of parameter        *)
(* declarations from outside of a body                                     *)

ParmDecls == {6, 7, 8}

NextParm ==
    \/ \E d \in ParmDecls : \E sh \in FunctionDecls[d].shapes :
          HasRoom(d) /\ VisitFunctionDecl(d, sh)
    \/ \E d \in ParmDecls : \E i \in 1..FunctionDecls[d].np : VisitParm(d, i)

SpecParm == Init /\ [][NextParm]_vars

\* C12: a visit of a parameter declaration that has no binding in the
\* variable scope reports one error, returns null and does not abort, and
\* leaves the symbol tables, the module, the function table and the ledger
\* as they were; a visit of a bound parameter, made from the function's
\* body, returns an entity and reports nothing.
C12_ParamLookup ==
    [][/\ last'.op = "VisitParmVarDecl" =>
             /\ errors' = Append(errors, "missing parameter declaration")
             /\ ret' = NoEnt
             /\ ~fatal'
             /\ UNCHANGED << mod, funcdecls, symtab, pending, toEmit, defaultMethods,
                             diagnosed, diags >>
       /\ \A e \in 1..Len(mod') :
             /\ Len(mod'[e].parms) = Len(mod'[e].refs)
             /\ \A j \in 1..Len(mod'[e].parms) :
                   IF mod'[e].refs[j] = NoValue THEN mod'[e].parms[j] = NoEnt
                   ELSE mod'[e].parms[j] # NoEnt
       /\ (/\ last'.op = "VisitFunctionDecl"
           /\ \A e \in 1..Len(mod') : \A j \in 1..Len(mod'[e].refs) :
                 mod'[e].refs[j] # NoValue)
             => errors' = errors]_vars


\* the name a request asks for
Requested(l) == FunctionDecls[l.d].name

\* C16: when a request with deferral creates the entity of a name that has
\* a pending definition, that definition is appended to the to-emit queue
\* and leaves the pending set in the same step; any other request leaves
\* both alone, one that finds an existing entity included.  No declaration
\* is appended twice, and no name is pending while a declaration of it is
\* queued.
C16_OneTimePromotion ==
    [][/\ IsRequest(last') =>
             IF /\ Len(mod') = Len(mod) + 1
                /\ last'.emit.defer
                /\ pending[Requested(last')] # NoDecl
             THEN /\ toEmit' = Append(toEmit, pending[Requested(last')])
                  /\ pending' = [pending EXCEPT ![Requested(last')] = NoDecl]
             ELSE /\ toEmit' = toEmit
                  /\ pending' = pending
       /\ \A i, j \in 1..Len(appendLog') : appendLog'[i] = appendLog'[j] => i = j
       /\ \A n \in FnNames : pending'[n] # NoDecl =>
             \A i \in 1..Len(toEmit') : FunctionDecls[toEmit'[i]].name # n]_vars

\* the definitions of h and g were set aside and then promoted, h first; the
\* last request found g's entity and left the ledger alone
C16_Witness ==
    /\ ~fatal
    /\ IsRequest(last)
    /\ last.d = 2
    /\ last.emit = deferred_emit_definition
    /\ toEmit = <<5, 2>>
    /\ \A n \in FnNames : pending[n] = NoDecl
    /\ Len(mod) = 2
    /\ ret = funcdecls["g"]
    /\ ret = 2



\* C18: a supported request that finds a function entity of its name whose
\* signature is the requested type returns that entity and leaves the
\* module -- the entity's body, signature and visibility with it -- and the
\* function table as they were; one that finds an entity of its name that is
\* not a function aborts.
C18_HitPath ==
    [][(/\ IsRequest(last')
        /\ ~Unsupported(last'.d, last'.emit)
        /\ get_global_value(Cur, Requested(last')) # NoEnt) =>
          LET entry == get_global_value(Cur, Requested(last'))
          IN  /\ mod[entry].kind # "func" => fatal'
              /\ (mod[entry].kind = "func" /\ mod[entry].type = last'.fty) =>
                    /\ ~fatal'
                    /\ ret' = entry
                    /\ mod' = mod
                    /\ funcdecls' = funcdecls]_vars

\* the definition of g was lowered; a request then found the entity and
\* returned it, body and all, beside a variable that bears h's name
C18_Witness ==
    /\ ~fatal
    /\ IsRequest(last)
    /\ last.d = 2
    /\ last.emit = emit_declaration
    /\ ret = funcdecls["g"]
    /\ mod[ret].blocks = BodyShapes[3]
    /\ mod[ret].vis = "public"
    /\ \E e \in 1..Len(mod) : mod[e].kind = "var" /\ mod[e].name = "h"


\* C19: a request that returns yields a function entity whose signature is
\* the requested type; a request whose type is not a function type, or is
\* not the signature of the function entity found for the name, aborts and
\* yields no entity.
C19_ReturnedSignature ==
    [][IsRequest(last') =>
          LET entry == get_global_value(Cur, Requested(last'))
          IN  /\ ~fatal' =>
                    /\ ret' \in 1..Len(mod')
                    /\ mod'[ret'].kind = "func"
                    /\ mod'[ret'].name = Requested(last')
                    /\ mod'[ret'].type = last'.fty
              /\ (\/ last'.fty = NotFnType
                  \/ entry # NoEnt /\ mod[entry].type # last'.fty) =>
                    /\ fatal'
                    /\ ret' = NoEnt
                    /\ mod' = mod]_vars

\* a request for h with a type other than the declaration's returned h's
\* entity, which bears that type, while h's definition was pending
C19_Witness ==
    /\ ~fatal
    /\ IsRequest(last)
    /\ last.d = 5
    /\ last.fty = visit_function_type(5) + 1
    /\ ret = 2
    /\ mod[ret].type = last.fty
    /\ mod[1].name = "g"
    /\ toEmit = <<>>
    /\ pending["h"] = 5

----------------------------------------------------------------------------
(* The resolver asked for member functions and for declarations of every   *)
(* linkage, in a C++ translation unit                                      *)

MemberDecls == {5, 14, 15, 16, 17, 18, 19}

\* the definition the driver may set aside: the one outside of the record
MemberDefs == {16}

NextMember ==
    \/ \E d \in MemberDefs : DeferDecl(d)
    \/ \E d \in MemberDecls : \E fty \in {visit_function_type(d), NotFnType} :
          \E emit \in Emitions : Request(d, fty, emit)

SpecMember == Init /\ [][NextMember]_vars

\* the redeclarations of d that are lexically inside a record and have a body
InRecordWithBody(d) ==
    {e \in Redecls(d) : "in_record" \in FunctionDecls[e].attrs /\ FunctionDecls[e].ownBody}

\* a redeclaration is more recent than those declared before it
MostRecent(ds) == CHOOSE e \in ds : \A h \in ds : h <= e

\* C17: when a request with deferral creates the entity of a name that has
\* no pending definition, the most recent redeclaration that is lexically
\* inside a record and has a body is queued, it alone and once: in the
\* default-methods queue when it is a defaulted copy- or move-assignment
\* operator, in the to-emit queue otherwise; when no redeclaration
\* qualifies, nothing is queued.
C17_MemberFunctionQueueing ==
    [][(/\ IsRequest(last')
        /\ Len(mod') = Len(mod) + 1
        /\ last'.emit.defer
        /\ pending[Requested(last')] = NoDecl) =>
          LET Q == InRecordWithBody(last'.d)
          IN  /\ pending' = pending
              /\ IF Q = {}
                 THEN toEmit' = toEmit /\ defaultMethods' = defaultMethods
                 ELSE IF "defaulted_assign" \in FunctionDecls[MostRecent(Q)].attrs
                 THEN /\ defaultMethods' = Append(defaultMethods, MostRecent(Q))
                      /\ toEmit' = toEmit
                 ELSE /\ toEmit' = Append(toEmit, MostRecent(Q))
                      /\ defaultMethods' = defaultMethods]_vars

\* the member function was asked for through its older declaration and the
\* more recent one was queued; the defaulted assignment operator went to the
\* default-methods queue
C17_Witness ==
    /\ ~fatal
    /\ IsRequest(last)
    /\ last.d = 14
    /\ toEmit = <<19>>
    /\ defaultMethods = <<17>>
    /\ Len(mod) = 2


\* C20: a function entity the resolver creates is public when the
\* declaration asked for is a definition of external linkage, and has the
\* visibility of its linkage when it is a definition of any linkage; when
\* the declaration is not a definition the entity is public if the
\* declaration forces an externally visible definition and private if not.
C20_VisibilityOnCreation ==
    [][(IsRequest(last') /\ Len(mod') = Len(mod) + 1) =>
          LET D == FunctionDecls[last'.d]
              fn == mod'[Len(mod')]
          IN  /\ ret' = Len(mod')
              /\ fn.kind = "func"
              /\ fn.blocks = <<>>
              /\ (D.isDef /\ ~D.static) => fn.vis = "public"
              /\ (D.isDef /\ D.static) => fn.vis = "private"
              /\ (~D.isDef /\ "forces_extern" \in D.attrs) => fn.vis = "public"
              /\ (~D.isDef /\ "forces_extern" \notin D.attrs) => fn.vis = "private"]_vars

\* the entity of a declaration that forces an externally visible definition
\* was created public, beside the private entity of a plain declaration
C20_Witness ==
    /\ ~fatal
    /\ IsRequest(last)
    /\ last.d = 18
    /\ ret = 2
    /\ mod[2].vis = "public"
    /\ mod[1].name = "om"
    /\ mod[1].vis = "private"
    /\ repr["om"] = 15


----------------------------------------------------------------------------
(* Function entities across visits (SpecTU, SpecBody) *)

\* C21: every function entity without a body has private visibility,
\* whether a declaration visit or the resolver created it.
C21_DeclarationsPrivate ==
    \A e \in FuncOps : mod[e].blocks = <<>> => mod[e].vis = "private"


IsFunctionVisit(l) == l.op = "VisitFunctionDecl"

\* C22: a visit of a function declaration that is not a definition returns
\* the entity of the declaration's name; an entity that existed is left as
\* it was -- visibility, signature and body, also a body from an earlier
\* visit of the definition -- and one that did not is created private and
\* without a body, the rest of the module being left alone.
C22_NonDefinitionVisit ==
    [][(IsFunctionVisit(last') /\ ~FunctionDecls[last'.d].isDef) =>
          LET n == FunctionDecls[last'.d].name
          IN  /\ ~fatal'
              /\ ret' = funcdecls'[n]
              /\ IF funcdecls[n] # NoEnt
                 THEN /\ mod' = mod
                      /\ funcdecls' = funcdecls
                 ELSE /\ Len(mod') = Len(mod) + 1
                      /\ SubSeq(mod', 1, Len(mod)) = mod
                      /\ ret' = Len(mod')
                      /\ mod'[ret'].kind = "func"
                      /\ mod'[ret'].name = n
                      /\ mod'[ret'].vis = "private"
                      /\ mod'[ret'].blocks = <<>>]_vars

\* `int k();` was visited after the definition of k had been lowered: the
\* visit returned the entity with its body
C22_Witness ==
    /\ IsFunctionVisit(last)
    /\ last.d = 6
    /\ ret = funcdecls["k"]
    /\ mod[ret].by = 7
    /\ mod[ret].blocks # <<>>
    /\ mod[ret].vis = "public"
    /\ mod[ret].nargs = 2


\* an operation as it is but for its visibility
SameButVisibility(a, b) == [a EXCEPT !.vis = b.vis] = b

\* C23: a function entity that has a body keeps it, block for block and
\* operation for operation, whatever is visited or asked for afterwards; a
\* visit of a definition whose name has an entity with a body -- the same
\* definition again, or a second definition of the name -- adds nothing to
\* the module and changes at most the entity's visibility.
C23_BodyEmittedOnce ==
    [][/\ \A e \in FuncOps : mod[e].blocks # <<>> =>
             /\ mod'[e].blocks = mod[e].blocks
             /\ mod'[e].by = mod[e].by
             /\ mod'[e].nargs = mod[e].nargs
       /\ (/\ IsFunctionVisit(last')
           /\ ~fatal'
           /\ FunctionDecls[last'.d].isDef
           /\ funcdecls[FunctionDecls[last'.d].name] # NoEnt
           /\ mod[funcdecls[FunctionDecls[last'.d].name]].blocks # <<>>) =>
             /\ Len(mod') = Len(mod)
             /\ \A e \in 1..Len(mod) : SameButVisibility(mod[e], mod'[e])
             /\ ret' = funcdecls[FunctionDecls[last'.d].name]]_vars

\* g was lowered from one definition and the other definition of the name
\* g was visited afterwards: the body is the first one's
C23_Witness ==
    /\ IsFunctionVisit(last)
    /\ last.d = 3
    /\ ret = funcdecls["g"]
    /\ mod[ret].by = 2
    /\ mod[ret].blocks = BodyShapes[3]
    /\ repr["g"] = 2


\* C24: in the body of a lowered function definition every reference to a
\* parameter resolved to the entry-block argument of that parameter's
\* position in the function it was lowered into.
C24_ParameterBinding ==
    \A e \in Lowered :
        LET prefs == FunctionDecls[BodyOwner(mod[e].by)].prefs
        IN  hasBody(mod[e].by) =>
                /\ Len(mod[e].refs) = Len(prefs)
                /\ \A j \in 1..Len(prefs) : mod[e].refs[j] = Val(e, prefs[j])


----------------------------------------------------------------------------
(* Enum declarations across a redeclaration chain (SpecDecl) *)

\* the enum entities of a module
EnumOps(m) == {e \in 1..Len(m) : m[e].kind = "enum"}

\* the entity an enumerator is bound to in the table of enumerators
EnumConstOp(tab, c) == lookup(tab["enumconsts"], Key("enumconst", c, 0)).e

\* the step is a visit of a complete enum definition, and an earlier
\* declaration of its chain is bound to an enum entity
Completes(l) ==
    /\ l.op = "VisitEnumDecl"
    /\ TagDecls[l.d].complete
    /\ TagDecls[l.d].prev # NoDecl
    /\ previous_enum_op(Cur, TagDecls[l.d].prev).op # NoEnt

\* the enumerators of a definition that have no entity yet, in declaration
\* order
Unbound(tab, d) ==
    SelectSeq(TagDecls[d].enumerators, LAMBDA c : EnumConstOp(tab, c) = NoEnt)

\* C25: a visit of a complete enum definition, when an earlier declaration
\* of its chain has a forward enum entity, sets the underlying type of that
\* entity, puts the entities of the definition's enumerators into its
\* constants region, returns that entity and creates no enum entity; a
\* second visit of the definition adds no enumerator.
C25_EnumCompletionInPlace ==
    [][ Completes(last') =>
            LET op == previous_enum_op(Cur, TagDecls[last'.d].prev).op
                fresh == Unbound(symtab, last'.d)
            IN  /\ ~fatal'
                /\ ret' = op
                /\ mod'[op].type = 1
                /\ EnumOps(mod') = EnumOps(mod)
                /\ Len(mod') = Len(mod) + Len(fresh)
                /\ \A j \in 1..Len(fresh) :
                       LET c == EnumConstOp(symtab', fresh[j])
                       IN  /\ c \in (Len(mod) + 1)..Len(mod')
                           /\ mod'[c].parent = op
                           /\ \E i \in 1..Len(mod'[op].members) :
                                  mod'[op].members[i] = c
                /\ last'.again =>
                       /\ Len(mod') = Len(mod)
                       /\ \A e \in 1..Len(mod) : mod'[e].members = mod[e].members
      ]_vars

\* `enum E; enum E { A, B };` and the definition visited twice: one enum
\* entity, the forward one, with the type and the two enumerators
C25_Witness ==
    /\ last.op = "VisitEnumDecl"
    /\ last.d = 8
    /\ last.again
    /\ ret # NoEnt
    /\ mod[ret].key = Key("enum", 6, 0)
    /\ mod[ret].type = 1
    /\ Len(mod[ret].members) = 2
    /\ Cardinality(EnumOps(mod)) = 1

\* C26: a visit of an incomplete redeclaration of an enum returns the one
\* enum entity of the chain, never a null and never a new entity, wherever
\* the redeclaration stands in the chain.
C26_IncompleteRedeclaration ==
    [][ ( /\ last'.op = "VisitEnumDecl"
          /\ ~TagDecls[last'.d].complete
          /\ TagDecls[last'.d].prev # NoDecl
          /\ previous_enum_op(Cur, TagDecls[last'.d].prev).op # NoEnt ) =>
            /\ ret' = previous_enum_op(Cur, TagDecls[last'.d].prev).op
            /\ Len(mod') = Len(mod)
      ]_vars

\* C27: after a completion in place the enumerators of the definition stand
\* at the front of the constants region of the entity, in declaration
\* order, before what the region held.
C27_EnumeratorOrder ==
    [][ Completes(last') =>
            LET op == previous_enum_op(Cur, TagDecls[last'.d].prev).op
                fresh == Unbound(symtab, last'.d)
                old == mod[op].members
                new == mod'[op].members
            IN  /\ Len(new) = Len(fresh) + Len(old)
                /\ \A j \in 1..Len(fresh) :
                       /\ new[j] = EnumConstOp(symtab', fresh[j])
                       /\ mod'[new[j]].key = Key("enumconst", fresh[j], 0)
                /\ \A j \in 1..Len(old) : new[Len(fresh) + j] = old[j]
      ]_vars

\* `enum E; enum E { A, B };`: the region of the forward entity holds A,
\* then B
C27_Witness ==
    /\ last.op = "VisitEnumDecl"
    /\ last.d = 8
    /\ ~last.again
    /\ ret # NoEnt
    /\ mod[ret].key = Key("enum", 6, 0)
    /\ Len(mod[ret].members) = 2
    /\ mod[mod[ret].members[1]].key = Key("enumconst", 1, 0)
    /\ mod[mod[ret].members[2]].key = Key("enumconst", 2, 0)


----------------------------------------------------------------------------
(* Nested tag definitions of fields (SpecDecl) *)

\* the tag definitions that are the types of the fields of a record
NestedTags(d) ==
    {FieldTagDecl[TagDecls[d].fields[j]] : j \in 1..Len(TagDecls[d].fields)} \ {NoDecl}

\* the entities a step added to the module
Added == (Len(mod) + 1)..Len(mod')

\* C28: when a record is visited, a field whose type is a nested tag
\* definition has that tag lowered before the field's own entity is made,
\* and the tag is lowered once: not again for a second field of the same
\* type, and not again when the enclosing record is visited again.
C28_NestedTagOnce ==
    [][ (last'.op = "VisitRecordDecl" /\ ~fatal') =>
            \A t \in NestedTags(last'.d) :
                LET tags == {e \in Added : mod'[e].key = Key("tag", t, 0)}
                    flds == {e \in Added : /\ mod'[e].kind = "field"
                                           /\ FieldTagDecl[mod'[e].key.d] = t}
                IN  /\ Cardinality(tags) = IF t \in tagNames THEN 0 ELSE 1
                    /\ flds # {}
                    /\ \A e \in tags : \A f \in flds : e < f
                    /\ t \in tagNames'
      ]_vars

\* `struct Outer { struct Inner { int a; } x, y; };` visited twice: two
\* fields of type Inner each time, and one entity for Inner, made before them
C28_Witness ==
    /\ last.op = "VisitRecordDecl"
    /\ last.d = 4
    /\ last.again
    /\ Cardinality({e \in 1..Len(mod) : mod[e].key = Key("tag", 5, 0)}) = 1
    /\ Cardinality({e \in 1..Len(mod) : mod[e].kind = "field" /\ FieldTagDecl[mod[e].key.d] = 5}) = 4
    /\ \A e \in 1..Len(mod) : \A f \in 1..Len(mod) :
           (mod[e].key = Key("tag", 5, 0) /\ mod[f].kind = "field" /\ FieldTagDecl[mod[f].key.d] = 5)
               => e < f


----------------------------------------------------------------------------
(* Variables and their initializers (SpecDecl) *)

\* the value a variable declaration is bound to in the table of variables
VarValue(tab, v) == lookup(tab["vars"], Key("var", v, 0))

C30_RevisitKeepsInitializer ==
    [][ ( /\ last'.op = "VisitVarDecl"
          /\ VarDecls[last'.d].hasInit
          /\ VarValue(symtab, last'.d) # NoValue ) =>
            LET e == VarValue(symtab, last'.d).e
            IN  /\ ret' = e
                /\ Len(mod') = Len(mod)
                /\ mod'[e].blocks = mod[e].blocks
      ]_vars


----------------------------------------------------------------------------
(* The pass pipeline (SpecPipeline) *)

\* pass->getTypeID() of the passes a step may build
PassIds == {"HLLowerTypes", "DCE", "LowerTypeDefs", "SpliceTrailingScopes"}

\* parent_t: the operation the pass is nested under
Parents == {"module", "func"}

PS(pass, parent, deps) == [pass |-> pass, parent |-> parent, deps |-> deps]

(* The pipeline steps, each nested< parent >(builder).depends_on(deps...).  *)
(* pass: the id of the pass pass_builder() makes; deps: the steps the       *)
(* builders in `dependencies` make, in order.                               *)
Steps == <<
    \* 1: nested< module >(createHLLowerTypesPass)
    PS("HLLowerTypes", "module", <<>>),
    \* 2: nested< func >(createDCEPass).depends_on(1)
    PS("DCE", "func", <<1>>),
    \* 3: nested< module >(createLowerTypeDefsPass).depends_on(1)
    PS("LowerTypeDefs", "module", <<1>>),
    \* 4: nested< func >(createSpliceTrailingScopes).depends_on(2, 3)
    PS("SpliceTrailingScopes", "func", <<2, 3>>)
>>

StepIds == 1..Len(Steps)

\* mlir::PassManager::addNestedPass< parent_t >: the pass goes to the end
\* of the passes nested under the parent
base_addNestedPass(p, id, parent) ==
    [p EXCEPT !.passes = Append(@, [id |-> id, parent |-> parent])]

\* an addNestedPass that does not consult the seen set
addNestedPass_unchecked(p, id, parent) ==
    base_addNestedPass([p EXCEPT !.seen = @ \cup {id}], id, parent)

\* pipeline_t::addNestedPass
addNestedPass(p, id, parent) ==
    IF id \in p.seen THEN p
    ELSE base_addNestedPass([p EXCEPT !.seen = @ \cup {id}], id, parent)

RECURSIVE schedule_on(_, _)
RECURSIVE schedule_dependencies(_, _, _)

\* pipeline_step::schedule_dependencies: the steps the dependency builders
\* make are scheduled on the pipeline, in order
schedule_dependencies(p, deps, j) ==
    IF j > Len(deps) THEN p
    ELSE schedule_dependencies(schedule_on(p, deps[j]), deps, j + 1)

\* nested_pass_pipeline_step< parent_t >::schedule_on
schedule_on(p, k) ==
    addNestedPass(schedule_dependencies(p, Steps[k].deps, 1),
                  Steps[k].pass, Steps[k].parent)

\* what the pipeline calls leave alone: the lowering session
PipelineFrame ==
    UNCHANGED << mod, funcdecls, symtab, pending, toEmit, defaultMethods, diagnosed,
                 diags, repr, errors, tagNames, fatal, ret, seen, DriverVars,
                 appendLog >>

\* ppl.addNestedPass< parent >(pass)
AddNestedPass(id, parent) ==
    /\ ppl' = addNestedPass(ppl, id, parent)
    /\ last' = [op |-> "addNestedPass", id |-> id, parent |-> parent,
                dup |-> id \in ppl.seen]
    /\ PipelineFrame

\* step->schedule_on(ppl)
ScheduleOn(k) ==
    /\ ppl' = schedule_on(ppl, k)
    /\ last' = [op |-> "schedule_on", d |-> k]
    /\ PipelineFrame

NextPipeline ==
    \/ \E id \in PassIds : \E parent \in Parents : AddNestedPass(id, parent)
    \/ \E k \in StepIds : ScheduleOn(k)

SpecPipeline == Init /\ [][NextPipeline]_vars

\* the passes of the pipeline with the given id
Scheduled(passes, id) == {i \in 1..Len(passes) : passes[i].id = id}

\* C31: over any sequence of calls on one pipeline a pass id is handed to
\* the underlying pass manager at most once; an addNestedPass of an id in
\* the seen set schedules nothing and leaves the seen set as it is, and one
\* of a new id hands over that pass and adds exactly that id to the set.
C31_PipelineDeduplication ==
    [][ /\ \A id \in PassIds : Cardinality(Scheduled(ppl'.passes, id)) <= 1
        /\ last'.op = "addNestedPass" =>
               IF last'.id \in ppl.seen
               THEN ppl' = ppl
               ELSE /\ ppl'.seen = ppl.seen \cup {last'.id}
                    /\ ppl'.passes = Append(ppl.passes,
                                            [id |-> last'.id, parent |-> last'.parent])
      ]_vars

\* a pass was added a second time, under the other parent: the pipeline
\* holds it once, under the parent of the first call
C31_Witness ==
    /\ last.op = "addNestedPass"
    /\ last.dup
    /\ last.id \in ppl.seen
    /\ Cardinality(Scheduled(ppl.passes, last.id)) = 1
    /\ \A i \in Scheduled(ppl.passes, last.id) : ppl.passes[i].parent # last.parent

\* C32: after a nested pass step was scheduled, its own pass is in the pass
\* order, and every dependency of the step that is in the pass order stands
\* before the pass of the step.
C32_DependenciesFirst ==
    [][ last'.op = "schedule_on" =>
            LET step == Steps[last'.d]
                own == Scheduled(ppl'.passes, step.pass)
            IN  /\ own # {}
                /\ \A j \in 1..Len(step.deps) :
                       \A i \in Scheduled(ppl'.passes, Steps[step.deps[j]].pass) :
                           \A o \in own : i < o
      ]_vars

====
